---- MODULE Spec2Model ----
(***************************************************************************)
(* Job orchestrator of backend/rag.py: the in-memory job status map, the   *)
(* two-worker thread pool, the per-session lock registry and the session   *)
(* artifacts written by a pipeline run.                                    *)
(*                                                                         *)
(* Threads: one API thread (the asyncio event loop of main.py, on which    *)
(* every endpoint body runs without awaiting inside the rag calls) and     *)
(* NumWorkers pool threads.  A step of a pool thread is one access to the  *)
(* lock registry or a lock, one file operation, or one call of             *)
(* update_upload_status together with the stage work that follows it up to *)
(* the next call; the API results (the answer of get_upload_status, the    *)
(* ValueError of start_add_materials) are functions of the state the call  *)
(* is made in.  StatusSpec follows one status record store by store and   *)
(* load by load.                                                           *)
(*                                                                         *)
(* Beside the orchestrator: ingest_jds and the two files of the JD store   *)
(* (JdSpec, and PersistSpec for both stores), and the text functions       *)
(* chunk_text (ChunkSpec), run_clustering (ClusterSpec),                   *)
(* _preprocess_resume_text (PreSpec) and extract_resume_structure with its *)
(* fallbacks (ExtractSpec), each applied to inputs drawn from bounded sets.*)
(* ChunkLoopSpec follows the loop of chunk_text pass by pass,              *)
(* StructuredSpec applies chunk_structured_resume, PipelineHeadSpec runs   *)
(* extraction, chunking and embedding of one text in sequence, and         *)
(* SearchSpec adds search_resume_index, run on the API thread, to the      *)
(* orchestrator.                                                           *)
(***************************************************************************)
EXTENDS Integers, Sequences, FiniteSets, TLC

\* ---- bounds of the model ------------------------------------------------
MaxJobs == 3          \* submissions accepted in one behaviour
NumSessions == 2      \* distinct session ids
MaxChunks == 2        \* chunks one run can produce

\* ---- program constants --------------------------------------------------
NumWorkersThree == 2 + 1   \* a pool one thread larger
NumWorkers == 2       \* ThreadPoolExecutor(max_workers=2)

Sessions == 1..NumSessions
Workers == 1..NumWorkers
UploadIds == 1..MaxJobs

\* UploadStatus members used by the orchestrator, with their declaration order
StatusRank == [uploading |-> 0, parsing |-> 1, chunking |-> 2, embedding |-> 3,
               indexing |-> 4, ready |-> 5, error |-> 6]
UploadStatus == DOMAIN StatusRank

\* ---- texts: strings are sequences of characters -------------------------
IsSpace(c) == c \in {" ", "\n", "\t"}

RECURSIVE lstrip(_)
lstrip(t) == IF t = <<>> THEN <<>>
             ELSE IF IsSpace(Head(t)) THEN lstrip(Tail(t)) ELSE t

RECURSIVE rstrip(_)
rstrip(t) == IF t = <<>> THEN <<>>
             ELSE IF IsSpace(t[Len(t)]) THEN rstrip(SubSeq(t, 1, Len(t) - 1)) ELSE t

\* str.strip()
strip(t) == rstrip(lstrip(t))

\* texts a caller can hand to start_resume_processing / start_add_materials
UploadTexts == {<<"a", "\n">>}
AddTexts == {<<"b">>}

VARIABLES
  UPLOAD_STATUS,      \* upload_id -> [status, detail, session_id]
  next_id,            \* number of upload ids minted so far (uuid4 is fresh)
  queue,              \* work queue of the executor (FIFO of work items)
  worker,             \* pool thread -> its position and locals
  SESSION_LOCKS,      \* session_id -> lock object
  lock_mu,            \* holder of _lock_mu (0 = free)
  lock_owner,         \* lock object -> pool thread holding it (0 = free)
  resume_raw,         \* session -> resume_raw.txt
  resume_structured,  \* session -> writer of resume_structured.json (0 = absent)
  resume_index,       \* session -> resume.index
  resume_meta,        \* session -> resume_meta.json
  extraction_file,    \* session -> writer of extraction.json (0 = absent)
  clusters_file,      \* session -> writer of clusters.json (0 = absent)
  api,                \* the API thread: position and the call it is in / has left
  hist,               \* history: what each job has done so far
  jd_index,           \* data/jd.index: the vectors of the global JD index
  jd_meta,            \* data/jd_meta.json: the metadata list of the global JD index
  ingest,             \* the ingest_jds call in progress, or the last one that ended
  call                \* a call of one of the text functions: arguments and result

files == <<resume_raw, resume_structured, resume_index, resume_meta,
           extraction_file, clusters_file>>
locks == <<SESSION_LOCKS, lock_mu, lock_owner>>
orchestrator == <<UPLOAD_STATUS, next_id, queue, worker, locks, files, api, hist>>
\* the state outside the job orchestrator
elsewhere == <<jd_index, jd_meta, ingest, call>>
vars == <<orchestrator, elsewhere>>

NoItem == [fn |-> "none", upload_id |-> 0, session_id |-> 0, text |-> <<>>]
NoFile == [exists |-> FALSE, text |-> <<>>]
NoMeta == [exists |-> FALSE, entries |-> <<>>]
NoIndex == [exists |-> FALSE, job |-> 0, ntotal |-> 0]
IdleWorker == [pc |-> "idle", item |-> NoItem, lock |-> 0, text |-> <<>>,
               meta |-> <<>>, nvec |-> 0, off |-> 0, exc |-> ""]
IdleApi == [pc |-> "idle", item |-> NoItem]
NoHist == [taken |-> 0, wrote |-> FALSE, nmeta |-> 0, raised |-> <<>>, escaped |-> FALSE,
           item |-> NoItem, prev |-> NoFile]
NoJdIndex == [exists |-> FALSE, vectors |-> <<>>]
NoIngest == [pc |-> "idle", calls |-> 0, items |-> <<>>, index0 |-> NoJdIndex, meta0 |-> NoMeta,
             existing_index |-> NoJdIndex, existing_meta |-> <<>>, all_chunks |-> <<>>,
             all_meta |-> <<>>, embeddings |-> <<>>, outcome |-> "none", ret |-> 0]
NoCall == [fn |-> "none"]

\* the server has just started: no job, no session artifact
OrchestratorIdle ==
  /\ UPLOAD_STATUS = <<>>
  /\ next_id = 0
  /\ queue = <<>>
  /\ worker = [w \in Workers |-> IdleWorker]
  /\ SESSION_LOCKS = [s \in {} |-> 0]
  /\ lock_mu = 0
  /\ lock_owner = <<>>
  /\ resume_raw = [s \in Sessions |-> NoFile]
  /\ resume_structured = [s \in Sessions |-> 0]
  /\ resume_index = [s \in Sessions |-> NoIndex]
  /\ resume_meta = [s \in Sessions |-> NoMeta]
  /\ extraction_file = [s \in Sessions |-> 0]
  /\ clusters_file = [s \in Sessions |-> 0]
  /\ api = IdleApi
  /\ hist = [j \in UploadIds |-> NoHist]

\* data/jd.index and data/jd_meta.json do not exist, ingest_jds is not running
NoJdStore ==
  /\ jd_index = NoJdIndex
  /\ jd_meta = NoMeta
  /\ ingest = NoIngest

Init == OrchestratorIdle /\ NoJdStore /\ call = NoCall

\* ---- the status map -----------------------------------------------------
\* a start function that schedules the run without a record
RegisterJobMissing(U, id, session_id, detail) == U

\* UPLOAD_STATUS[upload_id] = {...} in start_resume_processing / start_add_materials
RegisterJob(U, id, session_id, detail) ==
  [j \in DOMAIN U \cup {id} |->
     IF j = id THEN [status |-> "parsing", detail |-> detail, session_id |-> session_id]
     ELSE U[j]]

\* UPLOAD_STATUS.get(upload_id, {"status": ERROR, "detail": "Unknown upload_id"})
get_upload_status(upload_id) ==
  IF upload_id \in DOMAIN UPLOAD_STATUS
  THEN [status |-> UPLOAD_STATUS[upload_id].status, detail |-> UPLOAD_STATUS[upload_id].detail]
  ELSE [status |-> "error", detail |-> <<"Unknown upload_id">>]

\* load_resume_raw: the file's text, or None when the file does not exist
load_resume_raw(s) == resume_raw[s]

\* Python truthiness of Optional[str]: None and "" are falsy
Truthy(f) == f.exists /\ f.text # <<>>

Terminal(st) == st \in {"ready", "error"}

\* ---- API thread ---------------------------------------------------------
WorkItem(fn, id, s, t) == [fn |-> fn, upload_id |-> id, session_id |-> s, text |-> t]

\* the API thread is between two calls
ApiReady == api.pc = "idle"

\* start_resume_processing, up to and including the creation of the record
StartResumeProcessing(s, t) ==
  /\ ApiReady
  /\ next_id < MaxJobs
  /\ next_id' = next_id + 1
  /\ UPLOAD_STATUS' = RegisterJob(UPLOAD_STATUS, next_id + 1, s,
                                  <<"Processing uploaded content...">>)
  /\ api' = [pc |-> "submit",
             item |-> WorkItem("process_resume_background", next_id + 1, s, t)]
  /\ UNCHANGED <<elsewhere, queue, worker, locks, files, hist>>

\* start_add_materials: `if not load_resume_raw(session_id): raise ValueError`
NoExistingResume(s) == ~Truthy(load_resume_raw(s))

\* start_add_materials, up to and including the creation of the record; when
\* it raises, the call ends there and nothing has changed
StartAddMaterials(s, t) ==
  /\ ApiReady
  /\ IF NoExistingResume(s)
     THEN UNCHANGED <<UPLOAD_STATUS, next_id, api>>
     ELSE /\ next_id < MaxJobs
          /\ next_id' = next_id + 1
          /\ UPLOAD_STATUS' = RegisterJob(UPLOAD_STATUS, next_id + 1, s,
                                          <<"Merging materials and re-processing...">>)
          /\ api' = [pc |-> "submit",
                     item |-> WorkItem("_add_materials_worker", next_id + 1, s, t)]
  /\ UNCHANGED <<elsewhere, queue, worker, locks, files, hist>>

\* executor.submit(fn, upload_id, session_id, text); return upload_id
ExecutorSubmit ==
  /\ api.pc = "submit"
  /\ queue' = Append(queue, api.item)
  /\ api' = IdleApi
  /\ UNCHANGED <<elsewhere, UPLOAD_STATUS, next_id, worker, locks, files, hist>>

\* dict.setdefault in place of dict.get: the default is stored under the key
AfterSetdefault(U, upload_id) ==
  [j \in DOMAIN U \cup {upload_id} |->
     IF j \in DOMAIN U THEN U[j]
     ELSE [status |-> "error", detail |-> <<"Unknown upload_id">>, session_id |-> 0]]

\* the status map after UPLOAD_STATUS.get(upload_id, default): dict.get inserts nothing
AfterGet(U, upload_id) == U

\* resume_status -> get_upload_status(upload_id), for any id a client may send;
\* the value returned is get_upload_status(id) of the state it is called in
GetUploadStatus(id) ==
  /\ ApiReady
  /\ get_upload_status(id).status \in UploadStatus
  /\ UPLOAD_STATUS' = AfterGet(UPLOAD_STATUS, id)
  /\ api' = IdleApi
  /\ UNCHANGED <<elsewhere, next_id, queue, worker, locks, files, hist>>

\* ---- pool threads -------------------------------------------------------
Job(w) == worker[w].item.upload_id
Sess(w) == worker[w].item.session_id
Goto(w, pc) == [worker EXCEPT ![w].pc = pc]

\* a pool thread takes the oldest work item off the queue; the idle threads
\* are interchangeable, so the one with the lowest number is the one that takes it
Take(w) ==
  /\ worker[w].pc = "idle"
  /\ \A v \in Workers : v < w => worker[v].pc # "idle"
  /\ queue # <<>>
  /\ queue' = Tail(queue)
  /\ worker' = [worker EXCEPT ![w] = [IdleWorker EXCEPT !.pc = "sl_enter", !.item = Head(queue),
                                                        !.text = Head(queue).text]]
  /\ hist' = [hist EXCEPT ![Head(queue).upload_id].taken = @ + 1,
                          ![Head(queue).upload_id].item = Head(queue)]
  /\ UNCHANGED <<elsewhere, UPLOAD_STATUS, next_id, locks, files, api>>

\* a registry that is not guarded: every caller enters at once
LockMuNotHeld == TRUE

\* _session_lock: `with _lock_mu:` is entered only while no thread holds _lock_mu
LockMuFree == lock_mu = 0

\* _session_lock: enter `with _lock_mu:` and test `session_id not in SESSION_LOCKS`
SessionLock_Enter(w) ==
  /\ worker[w].pc = "sl_enter"
  /\ LockMuFree
  /\ lock_mu' = w
  /\ worker' = Goto(w, IF Sess(w) \notin DOMAIN SESSION_LOCKS THEN "sl_create" ELSE "sl_return")
  /\ UNCHANGED <<elsewhere, UPLOAD_STATUS, next_id, queue, SESSION_LOCKS, lock_owner, files, api, hist>>

\* _session_lock: SESSION_LOCKS[session_id] = threading.Lock(), then return it,
\* leaving `with _lock_mu`
SessionLock_Create(w) ==
  /\ worker[w].pc = "sl_create"
  /\ lock_owner' = Append(lock_owner, 0)
  /\ SESSION_LOCKS' = [s \in DOMAIN SESSION_LOCKS \cup {Sess(w)} |->
                         IF s = Sess(w) THEN Len(lock_owner) + 1 ELSE SESSION_LOCKS[s]]
  /\ worker' = [worker EXCEPT ![w].pc = "acquire", ![w].lock = Len(lock_owner) + 1]
  /\ lock_mu' = IF lock_mu = w THEN 0 ELSE lock_mu
  /\ UNCHANGED <<elsewhere, UPLOAD_STATUS, next_id, queue, files, api, hist>>

\* _session_lock: return SESSION_LOCKS[session_id], leaving `with _lock_mu`
SessionLock_Return(w) ==
  /\ worker[w].pc = "sl_return"
  /\ worker' = [worker EXCEPT ![w].pc = "acquire", ![w].lock = SESSION_LOCKS[Sess(w)]]
  /\ lock_mu' = IF lock_mu = w THEN 0 ELSE lock_mu
  /\ UNCHANGED <<elsewhere, UPLOAD_STATUS, next_id, queue, SESSION_LOCKS, lock_owner, files, api, hist>>

\* `with lock:` entry in process_resume_background / _add_materials_worker
Acquire(w) ==
  /\ worker[w].pc = "acquire"
  /\ lock_owner[worker[w].lock] = 0
  /\ lock_owner' = [lock_owner EXCEPT ![worker[w].lock] = w]
  /\ worker' = Goto(w, IF worker[w].item.fn = "_add_materials_worker"
                       THEN "load_raw" ELSE "raw_open")
  /\ UNCHANGED <<elsewhere, UPLOAD_STATUS, next_id, queue, SESSION_LOCKS, lock_mu, files, api, hist>>

\* ---- update_upload_status ------------------------------------------------
\* The calls of update_upload_status, named by the step of the run each one
\* opens (or, for load_raw, ready and except, is).
\* A table whose "Extracting skills" call reports a stage already left behind:
StatusAtRegress ==
  [extract |-> "parsing", chunk |-> "chunking", embed |-> "embedding",
   save_index |-> "indexing", extraction |-> "parsing", clustering |-> "indexing",
   ready |-> "ready", load_raw |-> "error", except |-> "error"]

\* the status each call writes
StatusAt ==
  [extract |-> "parsing", chunk |-> "chunking", embed |-> "embedding",
   save_index |-> "indexing", extraction |-> "indexing", clustering |-> "indexing",
   ready |-> "ready", load_raw |-> "error", except |-> "error"]

\* the detail each call writes
DetailAt(w) ==
  [extract    |-> <<"Extracting structured resume blocks (two-pass)...">>,
   chunk      |-> <<"Chunking structured blocks...">>,
   embed      |-> <<"Embedding chunks...", Len(worker[w].meta)>>,
   save_index |-> <<"Building search index...">>,
   extraction |-> <<"Extracting skills and experiences...">>,
   clustering |-> <<"Clustering into MLE/DS/SWE/QR/QD...">>,
   ready      |-> <<"Indexed chunks; clusters", Len(worker[w].meta)>>,
   load_raw   |-> <<"No existing resume to merge. Upload resume first.">>,
   except     |-> <<worker[w].exc>>]

\* the map after update_upload_status(upload_id, status, detail)
update_upload_status(U, upload_id, status, detail) ==
  IF upload_id \in DOMAIN U
  THEN [U EXCEPT ![upload_id].status = status, ![upload_id].detail = detail]
  ELSE U

\* the map after the call of update_upload_status at thread w's position
StatusWritten(w) ==
  update_upload_status(UPLOAD_STATUS, Job(w), StatusAt[worker[w].pc],
                       DetailAt(w)[worker[w].pc])

\* ---- exceptions ---------------------------------------------------------
\* a worker function without the try/except: nothing is caught
ExceptNothing(msg) == FALSE

\* `except Exception as e`: every exception a stage raises derives from Exception
ExceptException(msg) == TRUE

\* a stage raises: control goes to the handler, or out of the worker function
Raise(w, msg) ==
  /\ worker' = [worker EXCEPT ![w].pc = IF ExceptException(msg) THEN "except" ELSE "release",
                              ![w].exc = msg]
  /\ hist' = [hist EXCEPT ![Job(w)].raised = <<msg>>,
                          ![Job(w)].escaped = ~ExceptException(msg)]

\* except Exception as e: update_upload_status(upload_id, ERROR, str(e))
Except(w) ==
  /\ worker[w].pc = "except"
  /\ UPLOAD_STATUS' = StatusWritten(w)
  /\ worker' = Goto(w, "release")
  /\ UNCHANGED <<elsewhere, next_id, queue, locks, files, api, hist>>

Wrote(w) == [hist EXCEPT ![Job(w)].wrote = TRUE]

\* ---- the raw text of the session ----------------------------------------
\* a merge that keeps the surrounding whitespace of both texts
MergedUntrimmed(raw, new_text) == raw \o <<"\n", "\n">> \o new_text

\* merged = raw.strip() + "\n\n" + new_text.strip()
Merged(raw, new_text) == strip(raw) \o <<"\n", "\n">> \o strip(new_text)

\* _add_materials_worker: raw = load_resume_raw(session_id);
\* if not raw or not raw.strip(): status ERROR and return; else merge
LoadRaw(w) ==
  /\ worker[w].pc = "load_raw"
  /\ LET raw == load_resume_raw(Sess(w)) IN
       IF ~Truthy(raw) \/ strip(raw.text) = <<>>
       THEN /\ UPLOAD_STATUS' = StatusWritten(w)
            /\ worker' = Goto(w, "release")
       ELSE /\ worker' = [worker EXCEPT ![w].pc = "raw_open",
                                        ![w].text = Merged(raw.text, worker[w].item.text)]
            /\ UNCHANGED UPLOAD_STATUS
  /\ hist' = [hist EXCEPT ![Job(w)].prev = load_resume_raw(Sess(w))]
  /\ UNCHANGED <<elsewhere, next_id, queue, locks, files, api>>

\* save_resume_raw: path.write_text opens the file with mode 'w', which
\* creates it empty or truncates it ...
SaveRaw_Open(w) ==
  /\ worker[w].pc = "raw_open"
  /\ resume_raw' = [resume_raw EXCEPT ![Sess(w)] = [exists |-> TRUE, text |-> <<>>]]
  /\ worker' = Goto(w, "raw_write")
  /\ hist' = Wrote(w)
  /\ UNCHANGED <<elsewhere, UPLOAD_STATUS, next_id, queue, locks, resume_structured, resume_index,
                 resume_meta, extraction_file, clusters_file, api>>

\* ... and then writes the text and closes the file
SaveRaw_Write(w) ==
  /\ worker[w].pc = "raw_write"
  /\ resume_raw' = [resume_raw EXCEPT ![Sess(w)].text = worker[w].text]
  /\ worker' = Goto(w, "extract")
  /\ UNCHANGED <<elsewhere, UPLOAD_STATUS, next_id, queue, locks, resume_structured, resume_index,
                 resume_meta, extraction_file, clusters_file, api, hist>>

\* ---- _run_full_pipeline -------------------------------------------------
\* a run that goes from the structured resume straight to the embedding
ExtractThenEmbed(w) ==
  /\ worker[w].pc = "extract"
  /\ UPLOAD_STATUS' = StatusWritten(w)
  /\ resume_structured' = [resume_structured EXCEPT ![Sess(w)] = Job(w)]
  /\ worker' = Goto(w, "embed")
  /\ hist' = Wrote(w)
  /\ UNCHANGED <<elsewhere, next_id, queue, locks, resume_raw, resume_index,
                 resume_meta, extraction_file, clusters_file, api>>

\* Each step is one call of update_upload_status followed by the work up to
\* the next call.
\* status PARSING; structured = extract_resume_structure(text, ...);
\* save_resume_structured(...)   (extract_resume_structure catches the
\* failures of its own passes)
Extract(w) ==
  /\ worker[w].pc = "extract"
  /\ UPLOAD_STATUS' = StatusWritten(w)
  /\ resume_structured' = [resume_structured EXCEPT ![Sess(w)] = Job(w)]
  /\ worker' = Goto(w, "chunk")
  /\ hist' = Wrote(w)
  /\ UNCHANGED <<elsewhere, next_id, queue, locks, resume_raw, resume_index,
                 resume_meta, extraction_file, clusters_file, api>>

\* the metadata list of a run with n chunks: entry i carries the run's
\* chunk i (chunk_id, text) and chunk_index i
MetaOf(job, n) == [i \in 1..n |-> [job |-> job, chunk_index |-> i]]

\* status CHUNKING; chunks, meta = chunk_structured_resume(structured): the
\* structured resume has at least one block and every block gives at least
\* one chunk
Chunk(w) ==
  /\ worker[w].pc = "chunk"
  /\ UPLOAD_STATUS' = StatusWritten(w)
  /\ \E n \in 1..MaxChunks :
       worker' = [worker EXCEPT ![w].pc = "embed", ![w].meta = MetaOf(Job(w), n)]
  /\ UNCHANGED <<elsewhere, next_id, queue, locks, files, api, hist>>

\* status EMBEDDING; embeddings = gemini_client.embed_texts(chunks)
Embed(w) ==
  /\ worker[w].pc = "embed"
  /\ UPLOAD_STATUS' = StatusWritten(w)
  /\ \E ok \in BOOLEAN :
       IF ok
       THEN /\ worker' = [worker EXCEPT ![w].pc = "save_index",
                                        ![w].nvec = Len(worker[w].meta)]
            /\ UNCHANGED hist
       ELSE Raise(w, "embed_texts failed")
  /\ UNCHANGED <<elsewhere, next_id, queue, locks, files, api>>

\* status INDEXING; index = create_faiss_index(dim); index.add(...);
\* save_faiss_index(index, index_path)
SaveIndex(w) ==
  /\ worker[w].pc = "save_index"
  /\ UPLOAD_STATUS' = StatusWritten(w)
  /\ resume_index' = [resume_index EXCEPT ![Sess(w)] =
                        [exists |-> TRUE, job |-> Job(w), ntotal |-> worker[w].nvec]]
  /\ worker' = Goto(w, "meta_open")
  /\ hist' = Wrote(w)
  /\ UNCHANGED <<elsewhere, next_id, queue, locks, resume_raw, resume_structured,
                 resume_meta, extraction_file, clusters_file, api>>

\* a hole (zero bytes) left when a write lands beyond the end of the file
Hole == [job |-> 0, chunk_index |-> 0]

\* the file after writing entry e at position k through an own file handle
WriteAt(entries, k, e) ==
  [i \in 1..(IF k > Len(entries) THEN k ELSE Len(entries)) |->
     IF i = k THEN e ELSE IF i <= Len(entries) THEN entries[i] ELSE Hole]

\* a file opened for update ('r+'): the old content stays
OpenNoTruncate(f) == [exists |-> TRUE, entries |-> f.entries]

\* the content of a file just opened with mode 'w': created empty, or truncated
OpenForWrite(f) == [exists |-> TRUE, entries |-> <<>>]

\* save_metadata: open(path, 'w', encoding='utf-8')
SaveMetadata_Open(w) ==
  /\ worker[w].pc = "meta_open"
  /\ resume_meta' = [resume_meta EXCEPT ![Sess(w)] = OpenForWrite(@)]
  /\ worker' = [worker EXCEPT ![w].pc = "meta_write", ![w].off = 0]
  /\ hist' = [hist EXCEPT ![Job(w)].wrote = TRUE, ![Job(w)].nmeta = Len(worker[w].meta)]
  /\ UNCHANGED <<elsewhere, UPLOAD_STATUS, next_id, queue, locks, resume_raw, resume_structured,
                 resume_index, extraction_file, clusters_file, api>>

\* save_metadata: json.dump(meta, f) writes the entries in order at the
\* handle's offset; the file is closed after the last one
SaveMetadata_Write(w) ==
  /\ worker[w].pc = "meta_write"
  /\ resume_meta' = [resume_meta EXCEPT ![Sess(w)].entries =
                       WriteAt(@, worker[w].off + 1, worker[w].meta[worker[w].off + 1])]
  /\ worker' = [worker EXCEPT ![w].off = @ + 1,
                              ![w].pc = IF worker[w].off + 1 = Len(worker[w].meta)
                                        THEN "extraction" ELSE "meta_write"]
  /\ UNCHANGED <<elsewhere, UPLOAD_STATUS, next_id, queue, locks, resume_raw, resume_structured,
                 resume_index, extraction_file, clusters_file, api, hist>>

\* status INDEXING; extraction = run_extraction(meta); save_extraction(...)
Extraction(w) ==
  /\ worker[w].pc = "extraction"
  /\ UPLOAD_STATUS' = StatusWritten(w)
  /\ \E ok \in BOOLEAN :
       IF ok
       THEN /\ extraction_file' = [extraction_file EXCEPT ![Sess(w)] = Job(w)]
            /\ worker' = Goto(w, "clustering")
            /\ hist' = Wrote(w)
       ELSE /\ Raise(w, "run_extraction failed")
            /\ UNCHANGED extraction_file
  /\ UNCHANGED <<elsewhere, next_id, queue, locks, resume_raw, resume_structured,
                 resume_index, resume_meta, clusters_file, api>>

\* status INDEXING; clusters, role_fit_distribution = run_clustering(...);
\* save_clusters(...)
Clustering(w) ==
  /\ worker[w].pc = "clustering"
  /\ UPLOAD_STATUS' = StatusWritten(w)
  /\ \E ok \in BOOLEAN :
       IF ok
       THEN /\ clusters_file' = [clusters_file EXCEPT ![Sess(w)] = Job(w)]
            /\ worker' = Goto(w, "ready")
            /\ hist' = Wrote(w)
       ELSE /\ Raise(w, "run_clustering failed")
            /\ UNCHANGED clusters_file
  /\ UNCHANGED <<elsewhere, next_id, queue, locks, resume_raw, resume_structured,
                 resume_index, resume_meta, extraction_file, api>>

\* status READY; return
Ready(w) ==
  /\ worker[w].pc = "ready"
  /\ UPLOAD_STATUS' = StatusWritten(w)
  /\ worker' = Goto(w, "release")
  /\ UNCHANGED <<elsewhere, next_id, queue, locks, files, api, hist>>

\* acquire()/release() written out without try/finally: a run that raised
\* leaves without releasing
ReleaseUnlessRaised(w) ==
  /\ worker[w].pc = "release"
  /\ lock_owner' = IF worker[w].exc = "" THEN [lock_owner EXCEPT ![worker[w].lock] = 0]
                   ELSE lock_owner
  /\ worker' = [worker EXCEPT ![w] = IdleWorker]
  /\ UNCHANGED <<elsewhere, UPLOAD_STATUS, next_id, queue, SESSION_LOCKS, lock_mu, files, api, hist>>

\* leaving `with lock:` (normally, by return, or by an escaping exception);
\* the worker function returns and the pool thread waits for the next item
Release(w) ==
  /\ worker[w].pc = "release"
  /\ lock_owner' = [lock_owner EXCEPT ![worker[w].lock] = 0]
  /\ worker' = [worker EXCEPT ![w] = IdleWorker]
  /\ UNCHANGED <<elsewhere, UPLOAD_STATUS, next_id, queue, SESSION_LOCKS, lock_mu, files, api, hist>>

\* ---- the system ---------------------------------------------------------
\* ids a client may ask the status of: the minted ones and one never minted
QueryIds == 1..(MaxJobs + 1)

\* session ids are opaque strings chosen by the client: they are numbered in
\* the order of their first upload
UsedSessions == {UPLOAD_STATUS[j].session_id : j \in DOMAIN UPLOAD_STATUS}
UploadSessions == {s \in Sessions : \A r \in Sessions : r < s => r \in UsedSessions}

ApiStep ==
  \/ \E s \in UploadSessions, t \in UploadTexts : StartResumeProcessing(s, t)
  \/ \E s \in Sessions, t \in AddTexts : StartAddMaterials(s, t)
  \/ ExecutorSubmit
  \/ \E id \in QueryIds : GetUploadStatus(id)

WorkerStep(w) ==
  \/ Take(w)
  \/ SessionLock_Enter(w)
  \/ SessionLock_Create(w)
  \/ SessionLock_Return(w)
  \/ Acquire(w)
  \/ LoadRaw(w)
  \/ SaveRaw_Open(w)
  \/ SaveRaw_Write(w)
  \/ Extract(w)
  \/ Chunk(w)
  \/ Embed(w)
  \/ SaveIndex(w)
  \/ SaveMetadata_Open(w)
  \/ SaveMetadata_Write(w)
  \/ Extraction(w)
  \/ Clustering(w)
  \/ Ready(w)
  \/ Except(w)
  \/ Release(w)

Next == ApiStep \/ \E w \in Workers : WorkerStep(w)

Spec == Init /\ [][Next]_vars

\* ---- chunk_text ----------------------------------------------------------
ChunkSize == 3        \* get_chunk_size(): CHUNK_SIZE of the environment, scaled down
ChunkOverlap == 1     \* get_chunk_overlap(): CHUNK_OVERLAP of the environment, scaled down

\* a slice bound of Python: a negative one counts from the end, and both are
\* clipped to the text
SliceIndex(i, n) ==
  IF i < 0 THEN (IF i + n < 0 THEN 0 ELSE i + n) ELSE IF i > n THEN n ELSE i

\* text[start:end] of Python, with 0-based start and exclusive end, clipped
Slice(text, start, end) ==
  SubSeq(text, SliceIndex(start, Len(text)) + 1, SliceIndex(end, Len(text)))

\* a window that begins one character after the end of the last one
NextStartBeyond(end, overlap) == end + 1

\* start = end - overlap
NextStart(end, overlap) == end - overlap

\* the loop of chunk_text from the window that begins at start
RECURSIVE chunk_loop(_, _, _, _)
chunk_loop(text, start, chunk_size, overlap) ==
  IF ~(start < Len(text)) THEN <<>>
  ELSE LET end == start + chunk_size
           chunk == Slice(text, start, end)
           here == IF strip(chunk) # <<>> THEN <<strip(chunk)>> ELSE <<>>
       IN  IF NextStart(end, overlap) >= Len(text) THEN here
           ELSE here \o chunk_loop(text, NextStart(end, overlap), chunk_size, overlap)

\* chunk_text(text, chunk_size, overlap)
chunk_text(text, chunk_size, overlap) ==
  IF text = <<>> THEN <<>> ELSE chunk_loop(text, 0, chunk_size, overlap)

\* chunk_text is about to be called on some text with some chunk size and overlap
MaxLen == 4           \* characters of a text handed to chunk_text or _preprocess_resume_text
Chars == {"a", "b", " "}
ChunkInit ==
  /\ OrchestratorIdle /\ NoJdStore
  /\ \E n \in 0..MaxLen : \E text \in [1..n -> Chars] :
       \E chunk_size \in 1..ChunkSize : \E overlap \in 0..(chunk_size - 1) :
         call = [fn |-> "chunk_text", text |-> text, chunk_size |-> chunk_size,
                 overlap |-> overlap, done |-> FALSE, chunks |-> <<>>]

ChunkText ==
  /\ call.fn = "chunk_text" /\ ~call.done
  /\ call' = [call EXCEPT !.done = TRUE,
                          !.chunks = chunk_text(call.text, call.chunk_size, call.overlap)]
  /\ UNCHANGED <<orchestrator, jd_index, jd_meta, ingest>>

ChunkNext == ChunkText

ChunkSpec == ChunkInit /\ [][ChunkNext]_vars

\* ---- chunk_text, one pass of its loop at a time ----------------------------
MaxPasses == 6        \* passes of the while loop followed in one call

\* chunk_text is about to be called with any overlap, also one that is not
\* smaller than the chunk size
ChunkLoopInit ==
  /\ OrchestratorIdle /\ NoJdStore
  /\ \E n \in 0..MaxLen : \E text \in [1..n -> Chars] :
       \E chunk_size \in 1..ChunkSize : \E overlap \in 0..(ChunkSize + 1) :
         call = [fn |-> "chunk_text loop", text |-> text, chunk_size |-> chunk_size,
                 overlap |-> overlap, pc |-> "entry", start |-> 0, passes |-> 0,
                 chunks |-> <<>>]

\* if not text: return []; chunks = []; start = 0
ChunkLoop_Enter ==
  /\ call.fn = "chunk_text loop" /\ call.pc = "entry"
  /\ call' = [call EXCEPT !.pc = IF call.text = <<>> THEN "returned" ELSE "while"]
  /\ UNCHANGED <<orchestrator, jd_index, jd_meta, ingest>>

\* one test of `while start < len(text):` and, when it holds, one pass of the body
ChunkLoop_Pass ==
  /\ call.fn = "chunk_text loop" /\ call.pc = "while"
  /\ call.passes < MaxPasses
  /\ IF ~(call.start < Len(call.text))
     THEN call' = [call EXCEPT !.pc = "returned"]
     ELSE LET end == call.start + call.chunk_size
              chunk == Slice(call.text, call.start, end)
              start == NextStart(end, call.overlap)
          IN  call' = [call EXCEPT
                         !.chunks = IF strip(chunk) # <<>> THEN Append(@, strip(chunk)) ELSE @,
                         !.start = start,
                         !.passes = @ + 1,
                         !.pc = IF start >= Len(call.text) THEN "returned" ELSE "while"]
  /\ UNCHANGED <<orchestrator, jd_index, jd_meta, ingest>>

ChunkLoopNext == ChunkLoop_Enter \/ ChunkLoop_Pass

ChunkLoopSpec == ChunkLoopInit /\ [][ChunkLoopNext]_vars

\* the interpreter keeps running the call
ChunkLoopFairSpec == ChunkLoopSpec /\ WF_vars(ChunkLoopNext)

\* ---- the global job-description index -----------------------------------
\* ingest_jds runs on the API thread from its first line to its return (the
\* endpoint does not await inside it), so two calls never overlap.
MaxIngests == 2       \* calls of ingest_jds in one behaviour
MaxItems == 2         \* items in one call

JdRoles == {"MLE"}
JdTexts == {<<>>, <<" ">>, <<"a", "b">>, <<"a", " ", "c", "d">>}
JDItem == [role : JdRoles, text : JdTexts]
JdItemLists == UNION {[1..n -> JDItem] : n \in 0..MaxItems}

\* the vector gemini_client.embed_texts gives for a text: a function of the text
Embedding(text) == <<"embedding of", text>>
embed_texts(texts) == [i \in 1..Len(texts) |-> Embedding(texts[i])]

\* the metadata of item number k of call c: one entry per chunk, in order;
\* the chunk_id holds a fresh uuid, here the call and the item it was minted for
ItemMeta(c, k, item, chunks) ==
  [i \in 1..Len(chunks) |->
     [chunk_id |-> <<"jd", item.role, c, k, i - 1>>, text |-> chunks[i],
      source_type |-> "jd", role |-> item.role]]

\* `for item in items:` from item k on: the chunks and the metadata appended
RECURSIVE IngestLoop(_, _, _)
IngestLoop(c, items, k) ==
  IF k > Len(items) THEN [all_chunks |-> <<>>, all_meta |-> <<>>]
  ELSE LET chunks == chunk_text(items[k].text, ChunkSize, ChunkOverlap)
           rest == IngestLoop(c, items, k + 1)
       IN  [all_chunks |-> chunks \o rest.all_chunks,
            all_meta |-> ItemMeta(c, k, items[k], chunks) \o rest.all_meta]

\* a rewrite that keeps only the new entries
ReplacedMeta(existing_meta, all_meta) == all_meta

\* combined_meta = existing_meta + all_meta
CombinedMeta(existing_meta, all_meta) == existing_meta \o all_meta

\* load_metadata: the list in the file, [] when the file does not exist
load_metadata(f) == IF f.exists THEN f.entries ELSE <<>>

\* ingest_jds up to `if not all_chunks: return 0`: load the index and the
\* metadata, chunk every item
IngestJds_Load(items) ==
  /\ ingest.pc = "idle"
  /\ ingest.calls < MaxIngests
  /\ LET c == ingest.calls + 1
         acc == IngestLoop(c, items, 1)
         began == [NoIngest EXCEPT !.calls = c, !.items = items,
                                   !.index0 = jd_index, !.meta0 = jd_meta,
                                   !.existing_index = jd_index,
                                   !.existing_meta = load_metadata(jd_meta),
                                   !.all_chunks = acc.all_chunks, !.all_meta = acc.all_meta]
     IN  ingest' = IF acc.all_chunks = <<>>
                   THEN [began EXCEPT !.outcome = "returned", !.ret = 0]
                   ELSE [began EXCEPT !.pc = "embed"]
  /\ UNCHANGED <<orchestrator, jd_index, jd_meta, call>>

\* embeddings = gemini_client.embed_texts(all_chunks): one vector per chunk,
\* or the call raises and ingest_jds ends with that exception
IngestJds_Embed ==
  /\ ingest.pc = "embed"
  /\ \E ok \in BOOLEAN :
       ingest' = IF ok
                 THEN [ingest EXCEPT !.pc = "save_index",
                                     !.embeddings = embed_texts(ingest.all_chunks)]
                 ELSE [ingest EXCEPT !.pc = "idle", !.outcome = "raised"]
  /\ UNCHANGED <<orchestrator, jd_index, jd_meta, call>>

\* an ingestion that always starts from create_faiss_index(dim)
FreshIndex(existing_index) == <<>>

\* `if existing_index is None: index = create_faiss_index(dim) else: index =
\* existing_index`: the vectors the index holds before index.add
IndexToExtend(existing_index) ==
  IF existing_index.exists THEN existing_index.vectors ELSE <<>>

\* index = existing_index or create_faiss_index(dim); index.add(embeddings_np);
\* save_faiss_index(index, JD_INDEX_PATH)
IngestJds_SaveIndex ==
  /\ ingest.pc = "save_index"
  /\ jd_index' = [exists |-> TRUE,
                  vectors |-> IndexToExtend(ingest.existing_index) \o ingest.embeddings]
  /\ ingest' = [ingest EXCEPT !.pc = "save_meta"]
  /\ UNCHANGED <<orchestrator, jd_meta, call>>

\* save_metadata(combined_meta, JD_META_PATH); return len(all_chunks)
IngestJds_SaveMeta ==
  /\ ingest.pc = "save_meta"
  /\ jd_meta' = [exists |-> TRUE,
                 entries |-> CombinedMeta(ingest.existing_meta, ingest.all_meta)]
  /\ ingest' = [ingest EXCEPT !.pc = "idle", !.outcome = "returned",
                              !.ret = Len(ingest.all_chunks)]
  /\ UNCHANGED <<orchestrator, jd_index, call>>

JdNext ==
  \/ \E items \in JdItemLists : IngestJds_Load(items)
  \/ IngestJds_Embed
  \/ IngestJds_SaveIndex
  \/ IngestJds_SaveMeta

JdSpec == Init /\ [][JdNext]_vars

\* ---- both stores ---------------------------------------------------------
\* The global JD store (data/jd.index, data/jd_meta.json) and the artifacts of
\* the sessions (data/sessions/<id>/...) are different files, and neither
\* subsystem reads the other's state: a behaviour of both is a behaviour of
\* the orchestrator or a behaviour of the ingestion.
PersistNext ==
  \/ NoJdStore /\ Next
  \/ OrchestratorIdle /\ JdNext

PersistSpec == Init /\ [][PersistNext]_vars

\* ---- floating-point numbers ----------------------------------------------
\* A Python float is a binary floating-point number: a mantissa of
\* MantissaBits bits and an exponent, every operation rounded to the nearest
\* such number, ties to the even mantissa.  [m, e] is the number m * 2^e with
\* 2^(MantissaBits-1) <= m < 2^MantissaBits, or 0 when m = 0.
MantissaBits == 11    \* the 53 bits of a double, scaled down

RECURSIVE Pow2(_)
Pow2(n) == IF n <= 0 THEN 1 ELSE 2 * Pow2(n - 1)

RECURSIVE BitLen(_)
BitLen(n) == IF n = 0 THEN 0 ELSE 1 + BitLen(n \div 2)

FZero == [m |-> 0, e |-> 0]

\* the float nearest to n * 2^e, for an integer n > 0
RoundTo(n, e) ==
  LET k == BitLen(n) - MantissaBits IN
    IF k <= 0 THEN [m |-> n * Pow2(-k), e |-> e + k]
    ELSE LET q == n \div Pow2(k)
             r == n % Pow2(k)
             half == Pow2(k - 1)
             up == r > half \/ (r = half /\ q % 2 = 1)
             m == IF up THEN q + 1 ELSE q
         IN  IF m = Pow2(MantissaBits)
             THEN [m |-> Pow2(MantissaBits - 1), e |-> e + k + 1]
             ELSE [m |-> m, e |-> e + k]

\* float(n) for an integer n >= 0
FromInt(n) == IF n = 0 THEN FZero ELSE RoundTo(n, 0)

\* a * b
FMul(a, b) == IF a.m = 0 \/ b.m = 0 THEN FZero ELSE RoundTo(a.m * b.m, a.e + b.e)

\* what a division by zero leaves: ZeroDivisionError, no number
ZeroDivisionError == [m |-> -1, e |-> 0]

\* a / b: the quotient to MantissaBits + 1 bits, with one more bit that says
\* whether a remainder was left, rounded
FDiv(a, b) ==
  IF b.m = 0 THEN ZeroDivisionError
  ELSE IF a.m = 0 THEN FZero
  ELSE LET n == a.m * Pow2(MantissaBits + 1)
           q == n \div b.m
           sticky == IF n % b.m > 0 THEN 1 ELSE 0
       IN  RoundTo(2 * q + sticky, a.e - b.e - MantissaBits - 2)

\* a + b
FAdd(a, b) ==
  IF a.m = 0 THEN b
  ELSE IF b.m = 0 THEN a
  ELSE LET hi == IF a.e >= b.e THEN a ELSE b
           lo == IF a.e >= b.e THEN b ELSE a
           d == hi.e - lo.e
       IN  IF d > MantissaBits + 1 THEN hi
           ELSE RoundTo(hi.m * Pow2(d) + lo.m, lo.e)

\* the float of a decimal literal n/d, such as 0.6
Dec(n, d) == FDiv(FromInt(n), FromInt(d))

\* ---- run_clustering: the role-fit distribution --------------------------
MaxAssignments == 2   \* assignments in the answer of the clustering call
MaxTiers == 2         \* entries of one role_tiers list
MaxClusters == 2      \* entries of one clusters list

valid_cids == <<"MLE", "DS", "SWE", "QR", "QD">>
ValidCids == {valid_cids[i] : i \in DOMAIN valid_cids}
TIER_WEIGHT == [t \in {1, 2, 3} |->
                  CASE t = 1 -> FromInt(1) [] t = 2 -> Dec(6, 10) [] t = 3 -> Dec(3, 10)]
OWNERSHIP_MULT == [primary |-> FromInt(1), parallel |-> Dec(8, 10),
                   earlier_career |-> Dec(7, 10), add_on |-> Dec(6, 10),
                   coursework |-> Dec(4, 10)]

\* answers of the clustering call: role_tiers entries a model can send (roles
\* and tiers of the schema, and one role and one tier outside of it) ...
RoleTierInputs == {[role |-> "MLE", tier |-> "1"], [role |-> "DS", tier |-> "2"],
                   [role |-> "QD", tier |-> "3"], [role |-> "PM", tier |-> "1"],
                   [role |-> "MLE", tier |-> "x"], [role |-> "SWE", tier |-> "2"]}
OwnershipInputs == {"primary", "parallel", "earlier_career", "unknown"}
ClusterInputs == {"MLE", "QD", "PM"}
SeqUpTo(S, n) == UNION {[1..k -> S] : k \in 0..n}

\* ... an assignment carries role_tiers and ownership, or only clusters
AssignmentInputs ==
  {[role_tiers |-> rts, ownership |-> o, clusters |-> <<>>] :
     rts \in SeqUpTo(RoleTierInputs, MaxTiers) \ {<<>>}, o \in OwnershipInputs}
  \cup {[role_tiers |-> <<>>, ownership |-> "unknown", clusters |-> cs] :
          cs \in SeqUpTo(ClusterInputs, MaxClusters)}

\* int(tier_raw) if tier_raw.isdigit() else tier_raw; 0 stands for a value
\* that is no key of TIER_WEIGHT
TierOf(tier_raw) ==
  CASE tier_raw = "1" -> 1 [] tier_raw = "2" -> 2 [] tier_raw = "3" -> 3 [] OTHER -> 0

\* a lookup that gives nothing for an ownership that is no key
OwnershipMultKnownOnly(o) == IF o \in DOMAIN OWNERSHIP_MULT THEN OWNERSHIP_MULT[o] ELSE FZero

\* OWNERSHIP_MULT.get(a.get("ownership"), 1.0)
OwnershipMult(o) == IF o \in DOMAIN OWNERSHIP_MULT THEN OWNERSHIP_MULT[o] ELSE FromInt(1)

\* weighted = {c: 0.0 for c in valid_cids}
Zero == [c \in ValidCids |-> FZero]

\* `for rt in role_tiers:` from entry k on
RECURSIVE AddRoleTiers(_, _, _, _)
AddRoleTiers(weighted, role_tiers, mult, k) ==
  IF k > Len(role_tiers) THEN weighted
  ELSE LET rt == role_tiers[k]
           tier == TierOf(rt.tier)
       IN  IF rt.role \notin ValidCids \/ tier \notin DOMAIN TIER_WEIGHT
           THEN AddRoleTiers(weighted, role_tiers, mult, k + 1)
           ELSE AddRoleTiers([weighted EXCEPT
                                ![rt.role] = FAdd(@, FMul(TIER_WEIGHT[tier], mult))],
                             role_tiers, mult, k + 1)

\* `for cid in clusters_list: weighted[cid] += w` from entry k on
RECURSIVE AddClusters(_, _, _, _)
AddClusters(weighted, clusters_list, w, k) ==
  IF k > Len(clusters_list) THEN weighted
  ELSE AddClusters([weighted EXCEPT ![clusters_list[k]] = FAdd(@, w)],
                   clusters_list, w, k + 1)

\* [x for x in a.get("clusters", []) if x in valid_cids]
RECURSIVE ValidOnly(_)
ValidOnly(cs) ==
  IF cs = <<>> THEN <<>>
  ELSE (IF Head(cs) \in ValidCids THEN <<Head(cs)>> ELSE <<>>) \o ValidOnly(Tail(cs))

\* `for a in assignments:` of either branch, from assignment k on
RECURSIVE Accumulate(_, _, _, _)
Accumulate(weighted, assignments, use_gt, k) ==
  IF k > Len(assignments) THEN weighted
  ELSE LET a == assignments[k] IN
       IF use_gt
       THEN Accumulate(AddRoleTiers(weighted, a.role_tiers, OwnershipMult(a.ownership), 1),
                       assignments, use_gt, k + 1)
       ELSE LET clusters_list == ValidOnly(a.clusters) IN
            IF clusters_list = <<>>
            THEN Accumulate(weighted, assignments, use_gt, k + 1)
            ELSE Accumulate(AddClusters(weighted, clusters_list,
                                        FDiv(FromInt(1), FromInt(Len(clusters_list))), 1),
                            assignments, use_gt, k + 1)

\* sum(weighted.values()): the values added one after the other in the order
\* of the keys, from 0
RECURSIVE SumOver(_, _)
SumOver(f, k) ==
  IF k = 0 THEN FZero ELSE FAdd(SumOver(f, k - 1), f[valid_cids[k]])

\* a quotient taken whatever the total is
ShareUnguarded(w, total_w) == FDiv(w, total_w)

\* weighted[c] / total_w if total_w > 0 else 0.0
Share(w, total_w) == IF total_w.m > 0 THEN FDiv(w, total_w) ELSE FZero

\* run_clustering, the part that gives role_fit_distribution
role_fit_distribution(assignments) ==
  LET use_gt == \E k \in DOMAIN assignments : Len(assignments[k].role_tiers) > 0
      weighted == Accumulate(Zero, assignments, use_gt, 1)
      total_w == SumOver(weighted, Len(valid_cids))
  IN  [use_gt |-> use_gt, weighted |-> weighted, total_w |-> total_w,
       distribution |-> [c \in DOMAIN weighted |-> Share(weighted[c], total_w)]]

\* run_clustering is about to be called with the assignments of some answer
ClusterInit ==
  /\ OrchestratorIdle /\ NoJdStore
  /\ \E n \in 0..MaxAssignments : \E a \in [1..n -> AssignmentInputs] :
       call = [fn |-> "run_clustering", assignments |-> a, done |-> FALSE]

RunClustering ==
  /\ call.fn = "run_clustering" /\ ~call.done
  /\ LET r == role_fit_distribution(call.assignments) IN
       call' = [fn |-> "run_clustering", assignments |-> call.assignments, done |-> TRUE,
                use_gt |-> r.use_gt, weighted |-> r.weighted,
                total_w |-> r.total_w, distribution |-> r.distribution]
  /\ UNCHANGED <<orchestrator, jd_index, jd_meta, ingest>>

ClusterNext == RunClustering

ClusterSpec == ClusterInit /\ [][ClusterNext]_vars

\* ---- _preprocess_resume_text ----------------------------------------------
\* str.splitlines(): the lines of a text; a line break at the very end opens
\* no further line
RECURSIVE splitlines(_)
splitlines(text) ==
  IF text = <<>> THEN <<>>
  ELSE IF \A i \in DOMAIN text : text[i] # "\n" THEN <<text>>
  ELSE LET k == CHOOSE i \in DOMAIN text :
                  text[i] = "\n" /\ \A j \in 1..(i - 1) : text[j] # "\n"
       IN  <<SubSeq(text, 1, k - 1)>> \o splitlines(SubSeq(text, k + 1, Len(text)))

\* "\n".join(lines)
RECURSIVE join(_)
join(lines) ==
  IF lines = <<>> THEN <<>>
  ELSE IF Len(lines) = 1 THEN lines[1]
  ELSE lines[1] \o <<"\n">> \o join(Tail(lines))

\* re.sub(r"\t+\s*", " | ", line): a tab and all the whitespace after it
\* become one separator
RECURSIVE TabsToPipe(_)
TabsToPipe(line) ==
  IF line = <<>> THEN <<>>
  ELSE IF Head(line) = "\t" THEN <<" ", "|", " ">> \o TabsToPipe(lstrip(Tail(line)))
  ELSE <<Head(line)>> \o TabsToPipe(Tail(line))

\* re.sub(r"  +", " ", line)
RECURSIVE CollapseSpaces(_)
CollapseSpaces(line) ==
  IF line = <<>> THEN <<>>
  ELSE IF Head(line) = " " /\ Len(line) >= 2 /\ line[2] = " "
       THEN CollapseSpaces(Tail(line))
  ELSE <<Head(line)>> \o CollapseSpaces(Tail(line))

\* a line that is only trimmed
StripOnly(line) == strip(line)

\* the body of `for line in lines:`
ProcessLine(line) ==
  strip(CollapseSpaces(IF \E i \in DOMAIN line : line[i] = "\t"
                       THEN TabsToPipe(line) ELSE line))

\* _preprocess_resume_text(text)
preprocess_resume_text(text) ==
  LET lines == splitlines(text) IN join([i \in DOMAIN lines |-> ProcessLine(lines[i])])

\* _preprocess_resume_text is about to be called on some text
PreChars == {"a", " ", "\t", "\n"}
PreInit ==
  /\ OrchestratorIdle /\ NoJdStore
  /\ \E n \in 0..MaxLen : \E text \in [1..n -> PreChars] :
       call = [fn |-> "_preprocess_resume_text", text |-> text, applied |-> 0,
               result |-> <<>>, again |-> <<>>]

\* cleaned = _preprocess_resume_text(text)
Preprocess ==
  /\ call.fn = "_preprocess_resume_text" /\ call.applied = 0
  /\ call' = [call EXCEPT !.applied = 1, !.result = preprocess_resume_text(call.text)]
  /\ UNCHANGED <<orchestrator, jd_index, jd_meta, ingest>>

\* _preprocess_resume_text(cleaned): the function applied to its own result
PreprocessAgain ==
  /\ call.fn = "_preprocess_resume_text" /\ call.applied = 1
  /\ call' = [call EXCEPT !.applied = 2, !.again = preprocess_resume_text(call.result)]
  /\ UNCHANGED <<orchestrator, jd_index, jd_meta, ingest>>

PreNext == Preprocess \/ PreprocessAgain

PreSpec == PreInit /\ [][PreNext]_vars

\* ---- chunk_structured_resume ------------------------------------------------
BlockChunkSize == 16     \* BLOCK_CHUNK_SIZE (default 1200), scaled down
BlockChunkOverlap == 1   \* BLOCK_CHUNK_OVERLAP (default 150), scaled down
MinAvailable == 3        \* the 200 of max(200, max_chars - len(header) - 2), scaled down

Max(a, b) == IF a >= b THEN a ELSE b
Min(a, b) == IF a <= b THEN a ELSE b

\* block.get(key): None, here the empty string, for a key the block lacks
Get(block, key) == IF key \in DOMAIN block THEN block[key] ELSE <<>>

\* [p for p in parts if p]
RECURSIVE Present(_)
Present(parts) ==
  IF parts = <<>> THEN <<>>
  ELSE (IF Head(parts) # <<>> THEN <<Head(parts)>> ELSE <<>>) \o Present(Tail(parts))

\* " | ".join(parts)
RECURSIVE JoinParts(_)
JoinParts(parts) ==
  IF parts = <<>> THEN <<>>
  ELSE IF Len(parts) = 1 THEN parts[1]
  ELSE parts[1] \o <<" ", "|", " ">> \o JoinParts(Tail(parts))

\* _format_date_range(start, end)
format_date_range(start, end) ==
  IF start # <<>> /\ end # <<>> THEN start \o <<"-">> \o end
  ELSE IF start # <<>> THEN start ELSE end

HeaderFields ==
  [experience |-> <<"company", "title", "location">>,
   project |-> <<"name", "role", "location">>,
   education |-> <<"school", "degree", "field", "location">>]
HeaderDefault ==
  [experience |-> <<"E", "X", "P", "E", "R", "I", "E", "N", "C", "E">>, project |-> <<"P", "R", "O", "J", "E", "C", "T">>, education |-> <<"E", "D", "U", "C", "A", "T", "I", "O", "N">>]

\* _build_header(kind, block), kind one of the three kinds chunk_structured_resume passes
build_header(kind, block) ==
  LET named == [i \in DOMAIN HeaderFields[kind] |-> Get(block, HeaderFields[kind][i])]
      date_part == format_date_range(Get(block, "start_date"), Get(block, "end_date"))
      parts == IF date_part # <<>> THEN Append(named, date_part) ELSE named
      joined == JoinParts(Present(parts))
  IN  IF joined # <<>> THEN joined ELSE HeaderDefault[kind]

\* ", ".join(tags)
RECURSIVE JoinTags(_)
JoinTags(tags) ==
  IF tags = <<>> THEN <<>>
  ELSE IF Len(tags) = 1 THEN tags[1]
  ELSE tags[1] \o <<",", " ">> \o JoinTags(Tail(tags))

\* body_lines, joined and stripped
BodyOf(block) ==
  LET ownership == Get(block, "ownership")
      tags == Get(block, "skills_tags")
      bullets == Get(block, "bullets")
      body_lines ==
        (IF ownership # <<>> THEN <<<<"O", "w", "n", "e", "r", "s", "h", "i", "p", ":", " ">> \o ownership>> ELSE <<>>)
        \o (IF tags # <<>> THEN <<<<"T", "a", "g", "s", ":", " ">> \o JoinTags(tags)>> ELSE <<>>)
        \o [i \in DOMAIN bullets |-> <<"-", " ">> \o bullets[i]]
  IN  strip(join(body_lines))

\* the metadata entry of one chunk, before the pipeline adds session_id and chunk_index
BlockMeta(block_id, kind, idx, text, header) ==
  [chunk_id |-> <<block_id, kind, idx>>, text |-> text, source_type |-> "resume",
   block_id |-> block_id, block_type |-> kind, sub_index |-> idx, header |-> header]

\* `while start < len(body):` of _chunk_block_with_header from the window at start
RECURSIVE BlockLoop(_, _, _, _, _, _, _, _)
BlockLoop(header, body, block_id, kind, available, overlap, start, idx) ==
  IF ~(start < Len(body)) THEN <<>>
  ELSE LET end == Min(Len(body), start + available)
           segment == strip(Slice(body, start, end))
           text == header \o <<"\n">> \o segment
           entry == BlockMeta(block_id, kind, idx, text, header)
       IN  IF end >= Len(body) THEN <<entry>>
           ELSE <<entry>> \o BlockLoop(header, body, block_id, kind, available, overlap,
                                       Max(0, end - overlap), idx + 1)

\* available = max(200, max_chars - len(header) - 2)
Available(max_chars, header) == Max(MinAvailable, max_chars - Len(header) - 2)

\* a chunker that gives no chunk for a block without body
ChunkBlockUnlessEmptyBody(block, kind, max_chars, overlap, uuid) ==
  LET header == build_header(kind, block)
      body == BodyOf(block)
      block_id == IF Get(block, "block_id") # <<>> THEN Get(block, "block_id")
                  ELSE <<kind, "_", uuid>>
  IN  IF body = <<>> THEN <<>>
      ELSE BlockLoop(header, body, block_id, kind, Available(max_chars, header), overlap, 0, 0)

\* _chunk_block_with_header(block, kind, max_chars, overlap): the metadata list
\* (chunks is the list of its texts); uuid is the fresh uuid4 the call draws
chunk_block_with_header(block, kind, max_chars, overlap, uuid) ==
  LET header == build_header(kind, block)
      body == BodyOf(block)
      block_id == IF Get(block, "block_id") # <<>> THEN Get(block, "block_id")
                  ELSE <<kind, "_", uuid>>
  IN  IF body = <<>> THEN <<BlockMeta(block_id, kind, 0, header, header)>>
      ELSE BlockLoop(header, body, block_id, kind, Available(max_chars, header), overlap, 0, 0)

\* one `for ... in structured.get(kind, []) or []:` loop from block k on
RECURSIVE KindLoop(_, _, _, _)
KindLoop(blocks, kind, k, drawn) ==
  IF k > Len(blocks) THEN <<>>
  ELSE chunk_block_with_header(blocks[k], kind, BlockChunkSize, BlockChunkOverlap, drawn + k)
       \o KindLoop(blocks, kind, k + 1, drawn)

\* chunk_structured_resume(structured): the metadata list
chunk_structured_resume(structured) ==
  KindLoop(structured.experiences, "experience", 1, 0)
  \o KindLoop(structured.projects, "project", 1, Len(structured.experiences))
  \o KindLoop(structured.education, "education", 1,
              Len(structured.experiences) + Len(structured.projects))

\* chunk_structured_resume is about to be called on a structured resume as the
\* extraction can give it: the blocks carry the ids and fields the model answered
MaxBlocks == 2           \* experience blocks of one structured resume
LongName == <<"A", "A", "A", "A", "A", "A", "A", "A", "A", "A", "A", "A", "A", "A">>
BlockIds == {<<>>, <<"b">>}
Companies == {<<>>, <<"A">>, LongName}
Titles == {<<>>, <<"T">>}
BulletLists == {<<>>, <<<<"x">>>>, <<<<"x", " ", "y", "z">>, <<"w">>>>}
ExperienceBlocks ==
  [block_id : BlockIds, company : Companies, title : Titles, bullets : BulletLists]
ProjectBlocks == [block_id : BlockIds, name : {<<"P">>}, bullets : {<<>>},
                  ownership : {<<>>, <<"p">>}]
EducationBlocks == [block_id : BlockIds, school : {<<>>}, start_date : {<<"1">>},
                    end_date : {<<>>, <<"2">>}, skills_tags : {<<>>, <<<<"s">>, <<"t">>>>}]
StructuredInit ==
  /\ OrchestratorIdle /\ NoJdStore
  /\ \E n \in 0..MaxBlocks : \E experiences \in [1..n -> ExperienceBlocks] :
       \E np \in 0..1 : \E projects \in [1..np -> ProjectBlocks] :
         \E ne \in 0..1 : \E education \in [1..ne -> EducationBlocks] :
           call = [fn |-> "chunk_structured_resume",
                   structured |-> [experiences |-> experiences, projects |-> projects,
                                   education |-> education],
                   done |-> FALSE, meta |-> <<>>]

ChunkStructuredResume ==
  /\ call.fn = "chunk_structured_resume" /\ ~call.done
  /\ call' = [call EXCEPT !.done = TRUE, !.meta = chunk_structured_resume(call.structured)]
  /\ UNCHANGED <<orchestrator, jd_index, jd_meta, ingest>>

StructuredNext == ChunkStructuredResume

StructuredSpec == StructuredInit /\ [][StructuredNext]_vars

\* ---- the status record of a job, store by store ----------------------------
\* update_upload_status makes two stores into the dict UPLOAD_STATUS[upload_id]
\* and resume_status makes two loads from it; no lock is taken around either, and
\* the pool thread and the request thread may be switched between any two of them.
\* the updates of one run of _run_full_pipeline, in order
PipelinePcs == <<"extract", "chunk", "embed", "save_index", "extraction", "clustering", "ready">>
PipelineDetails ==
  <<"Extracting structured resume blocks (two-pass)...", "Chunking structured blocks...",
    "Embedding chunks...", "Building search index...",
    "Extracting skills and experiences...", "Clustering into MLE/DS/SWE/QR/QD...",
    "Indexed chunks; clusters">>
Update(i) == [status |-> StatusAt[PipelinePcs[i]], detail |-> PipelineDetails[i]]

\* the record start_resume_processing created; the run is about to make its first update and
\* no request is being served
StatusInit ==
  /\ OrchestratorIdle /\ NoJdStore
  /\ call = [fn |-> "update_upload_status",
             record |-> [status |-> "parsing", detail |-> "Processing uploaded content..."],
             updates |-> 0, writer |-> "between", reader |-> "idle",
             status_info |-> [status |-> "", detail |-> ""],
             written |-> {<<"parsing", "Processing uploaded content...">>}]

\* UPLOAD_STATUS[upload_id]["status"] = status
StoreStatus ==
  /\ call.fn = "update_upload_status" /\ call.writer = "between"
  /\ call.updates < Len(PipelinePcs)
  /\ call' = [call EXCEPT !.record.status = Update(call.updates + 1).status,
                          !.writer = "status_stored"]
  /\ UNCHANGED <<orchestrator, jd_index, jd_meta, ingest>>

\* UPLOAD_STATUS[upload_id]["detail"] = detail; the call returns
StoreDetail ==
  /\ call.fn = "update_upload_status" /\ call.writer = "status_stored"
  /\ call' = [call EXCEPT !.record.detail = Update(call.updates + 1).detail,
                          !.writer = "between",
                          !.updates = @ + 1,
                          !.written = @ \cup {<<Update(call.updates + 1).status,
                                                Update(call.updates + 1).detail>>}]
  /\ UNCHANGED <<orchestrator, jd_index, jd_meta, ingest>>

\* status_info = rag.get_upload_status(upload_id): the dict itself, not a copy
ResumeStatus_Get ==
  /\ call.fn = "update_upload_status" /\ call.reader \in {"idle", "responded"}
  /\ call' = [call EXCEPT !.reader = "got", !.status_info = [status |-> "", detail |-> ""]]
  /\ UNCHANGED <<orchestrator, jd_index, jd_meta, ingest>>

\* status=status_info["status"]
ResumeStatus_LoadStatus ==
  /\ call.fn = "update_upload_status" /\ call.reader = "got"
  /\ call' = [call EXCEPT !.reader = "status_loaded", !.status_info.status = call.record.status]
  /\ UNCHANGED <<orchestrator, jd_index, jd_meta, ingest>>

\* detail=status_info.get("detail", ""); the response is built
ResumeStatus_LoadDetail ==
  /\ call.fn = "update_upload_status" /\ call.reader = "status_loaded"
  /\ call' = [call EXCEPT !.reader = "responded", !.status_info.detail = call.record.detail]
  /\ UNCHANGED <<orchestrator, jd_index, jd_meta, ingest>>

StatusNext ==
  \/ StoreStatus \/ StoreDetail
  \/ ResumeStatus_Get \/ ResumeStatus_LoadStatus \/ ResumeStatus_LoadDetail

StatusSpec == StatusInit /\ [][StatusNext]_vars

\* ---- extract_resume_structure ----------------------------------------------
\* A resume text is the sequence of its lines.  The lines are taken from a few
\* sample lines; what the regular expressions of the code give for each of
\* them is written out below.
MaxLines == 3         \* lines of a resume text

ResumeLines == {"EXPERIENCE", "EDUCATION", "PROJECTS", "SKILLS", "Stanford University",
                "Engineer\tAcme 2019 - 2021", "- built x", "plain line", "",
                "ROLE FIT", "SUMMARY"}

\* _preprocess_resume_text on one of the sample lines
PreprocessLine(ln) ==
  IF ln = "Engineer\tAcme 2019 - 2021" THEN "Engineer | Acme 2019 - 2021" ELSE ln

\* `not text`: no character at all
EmptyText(lines) == lines = <<>> \/ lines = <<"">>

\* ln.strip() == ""
Blank(ln) == ln = ""

\* upper.startswith("GROUND-TRUTH ROLE FIT") or upper.startswith("ROLE FIT")
StartsRoleFit(ln) == ln = "ROLE FIT"

\* re.match(r"^-?\s*(MLE|SWE|DS|QD|QR)\s*:", ln): none of the sample lines
IsRoleLine(ln) == FALSE

\* upper.startswith("SUMMARY")
StartsSummary(ln) == ln = "SUMMARY"

\* _is_section_header: the first of SECTION_PATTERNS that matches, or None
SectionOf(ln) ==
  CASE ln = "EDUCATION" -> "education"
    [] ln = "EXPERIENCE" -> "experience"
    [] ln = "PROJECTS" -> "projects"
    [] ln = "SKILLS" -> "skills"
    [] OTHER -> "none"

\* _looks_like_experience_header
LooksLikeExperienceHeader(ln) == ln = "Engineer | Acme 2019 - 2021"

\* ln.startswith(("-", "•", "*", "◦", "▪")), and the text after the marker
IsBullet(ln) == ln = "- built x"
BulletText(ln) == IF ln = "- built x" THEN "built x" ELSE ln

\* _parse_date_from_line finds a date range: start_date is not None
HasDateRange(ln) == ln = "Engineer | Acme 2019 - 2021"

\* re.search(r"(University|College|Institute|School|Academy)", ln)
SchoolLike(ln) == ln = "Stanford University"

\* re.search(r"(Bachelor|Master|Ph\.?D|B\.?S\.?|M\.?S\.?|M\.?A\.?|B\.?A\.?)", ln):
\* "MA" of "SUMMARY" matches
DegreeLike(ln) == ln = "SUMMARY"

\* not ln.startswith(" ") and len(ln) < 100: every sample line
ShortLine(ln) == TRUE

\* [x for x in xs if keep(x)]
RECURSIVE NonBlank(_)
NonBlank(lines) ==
  IF lines = <<>> THEN <<>>
  ELSE (IF Blank(Head(lines)) THEN <<>> ELSE <<Head(lines)>>) \o NonBlank(Tail(lines))

\* _strip_noise_sections, from the state skip
RECURSIVE StripNoise(_, _)
StripNoise(lines, skip) ==
  IF lines = <<>> THEN <<>>
  ELSE LET ln == Head(lines) IN
    IF StartsRoleFit(ln) THEN StripNoise(Tail(lines), TRUE)
    ELSE IF skip /\ IsRoleLine(ln) THEN StripNoise(Tail(lines), skip)
    ELSE IF skip /\ Blank(ln) THEN StripNoise(Tail(lines), FALSE)
    ELSE IF skip /\ ~StartsSummary(ln) THEN StripNoise(Tail(lines), skip)
    ELSE <<ln>> \o StripNoise(Tail(lines), FALSE)

NoBlock == [header |-> "", bullets |-> <<>>, open |-> FALSE]
NoStructured == [experiences |-> <<>>, projects |-> <<>>, education |-> <<>>]
HeuristicStart == [section |-> "none", block |-> NoBlock, parsed |-> NoStructured]

Closed(b) == [header |-> b.header, bullets |-> b.bullets]

\* _save_current_block
SaveCurrentBlock(st) ==
  IF ~st.block.open THEN st
  ELSE [st EXCEPT
          !.block = NoBlock,
          !.parsed = CASE st.section = "education" ->
                            [@ EXCEPT !.education = Append(@, Closed(st.block))]
                       [] st.section = "experience" ->
                            [@ EXCEPT !.experiences = Append(@, Closed(st.block))]
                       [] st.section = "projects" ->
                            [@ EXCEPT !.projects = Append(@, Closed(st.block))]
                       [] OTHER -> @]

\* _save_current_block(); current_block = {...}
NewBlock(st, ln) ==
  [SaveCurrentBlock(st) EXCEPT !.block = [header |-> ln, bullets |-> <<>>, open |-> TRUE]]

\* current_block["bullets"].append(...)
AddBullet(st, t) == [st EXCEPT !.block.bullets = Append(@, t)]

\* the body of `for ln in lines:` once a section is known and the line is
\* neither a section header nor a bullet
BlockLine(st, ln) ==
  CASE st.section = "education" ->
         IF HasDateRange(ln) \/ SchoolLike(ln) \/ DegreeLike(ln) THEN NewBlock(st, ln)
         ELSE IF st.block.open THEN AddBullet(st, ln) ELSE st
    [] st.section = "experience" ->
         IF LooksLikeExperienceHeader(ln) \/ HasDateRange(ln) THEN NewBlock(st, ln)
         ELSE IF st.block.open THEN AddBullet(st, ln) ELSE st
    [] st.section = "projects" ->
         IF (HasDateRange(ln) \/ ShortLine(ln)) /\ (HasDateRange(ln) \/ ~st.block.open)
         THEN NewBlock(st, ln)
         ELSE IF st.block.open THEN AddBullet(st, ln) ELSE st
    [] OTHER -> st

\* the body of `for ln in lines:`
HeuristicLine(st, ln) ==
  IF SectionOf(ln) # "none"
  THEN [SaveCurrentBlock(st) EXCEPT !.section = SectionOf(ln)]
  ELSE IF st.section = "none" /\ ~LooksLikeExperienceHeader(ln) THEN st
  ELSE LET in == IF st.section = "none" THEN [st EXCEPT !.section = "experience"] ELSE st IN
       IF IsBullet(ln)
       THEN IF in.block.open /\ BulletText(ln) # "" THEN AddBullet(in, BulletText(ln)) ELSE in
       ELSE BlockLine(in, ln)

RECURSIVE HeuristicLoop(_, _)
HeuristicLoop(st, lines) ==
  IF lines = <<>> THEN st ELSE HeuristicLoop(HeuristicLine(st, Head(lines)), Tail(lines))

RECURSIVE BulletsOf(_)
BulletsOf(lines) ==
  IF lines = <<>> THEN <<>>
  ELSE (IF IsBullet(Head(lines)) THEN <<BulletText(Head(lines))>> ELSE <<>>)
       \o BulletsOf(Tail(lines))

\* a parser without the last resort
NoLastResort(parsed, lines) == parsed

\* `if not experiences and not education and not projects:` all bullets, or
\* the first ten lines, become one experience
LastResort(parsed, lines) ==
  IF parsed = NoStructured
  THEN [parsed EXCEPT !.experiences =
          <<[header |-> "",
             bullets |-> IF BulletsOf(lines) # <<>> THEN BulletsOf(lines)
                         ELSE SubSeq(lines, 1, IF Len(lines) < 10 THEN Len(lines) ELSE 10)]>>]
  ELSE parsed

\* _heuristic_structured(text), text given by its lines
heuristic_structured(text) ==
  LET lines == StripNoise(NonBlank(text), FALSE)
      st == SaveCurrentBlock(HeuristicLoop(HeuristicStart, lines))
  IN  LastResort(st.parsed, lines)

\* _preprocess_resume_text(text), text given by its lines
preprocess_lines(text) == [i \in DOMAIN text |-> PreprocessLine(text[i])]

\* what gemini_client.generate can answer to the segmentation prompt, as far
\* as extract_resume_structure looks at it: it raises, or gives blocks
SegmentAnswers == {[raised |-> TRUE, blocks |-> 0], [raised |-> FALSE, blocks |-> 0],
                   [raised |-> FALSE, blocks |-> 2]}

\* ... and to the mapping and the single-pass prompt: it raises, or gives
\* content that _coerce_structured turns into three lists
SomeBlock == [header |-> "from the model", bullets |-> <<>>]
GenerateAnswers ==
  {[raised |-> r, structured |-> st] :
     r \in BOOLEAN,
     st \in {NoStructured, [NoStructured EXCEPT !.experiences = <<SomeBlock>>],
             [NoStructured EXCEPT !.education = <<SomeBlock>>]}}
NoAnswer == [raised |-> FALSE, structured |-> NoStructured]

\* a test that lets nothing pass
NeverHasBlocks(structured) == FALSE

\* has_blocks = any(structured.get(k) for k in ("experiences", "projects", "education"))
HasBlocks(structured) ==
  structured.experiences # <<>> \/ structured.projects # <<>> \/ structured.education # <<>>

\* extract_resume_structure is about to be called on some text
ExtractInit ==
  /\ OrchestratorIdle /\ NoJdStore
  /\ \E n \in 0..MaxLines : \E text \in [1..n -> ResumeLines] :
       call = [fn |-> "extract_resume_structure", text |-> text, pc |-> "segment",
               made |-> <<>>, seg |-> [raised |-> FALSE, blocks |-> 0],
               map |-> NoAnswer, single |-> NoAnswer,
               path_used |-> "None", result |-> NoStructured, raised |-> FALSE]

\* cleaned_text = _preprocess_resume_text(text); pass 1: the segmentation call
Segment ==
  /\ call.fn = "extract_resume_structure" /\ call.pc = "segment"
  /\ \E ans \in SegmentAnswers :
       call' = [call EXCEPT !.made = Append(@, "segment"), !.seg = ans,
                            !.pc = IF ~ans.raised /\ ans.blocks > 0
                                   THEN "map" ELSE "single_pass"]
  /\ UNCHANGED <<orchestrator, jd_index, jd_meta, ingest>>

\* pass 2, `if blocks_data.get("blocks"):` the mapping call
Map ==
  /\ call.fn = "extract_resume_structure" /\ call.pc = "map"
  /\ \E ans \in GenerateAnswers :
       call' = IF ~ans.raised /\ HasBlocks(ans.structured)
               THEN [call EXCEPT !.made = Append(@, "map"), !.map = ans,
                                 !.path_used = "two_pass", !.result = ans.structured,
                                 !.pc = "returned"]
               ELSE [call EXCEPT !.made = Append(@, "map"), !.map = ans,
                                 !.pc = "single_pass"]
  /\ UNCHANGED <<orchestrator, jd_index, jd_meta, ingest>>

\* the single-pass call
SinglePass ==
  /\ call.fn = "extract_resume_structure" /\ call.pc = "single_pass"
  /\ \E ans \in GenerateAnswers :
       call' = IF ~ans.raised /\ HasBlocks(ans.structured)
               THEN [call EXCEPT !.made = Append(@, "single_pass"), !.single = ans,
                                 !.path_used = "single_pass", !.result = ans.structured,
                                 !.pc = "returned"]
               ELSE [call EXCEPT !.made = Append(@, "single_pass"), !.single = ans,
                                 !.pc = "heuristic"]
  /\ UNCHANGED <<orchestrator, jd_index, jd_meta, ingest>>

\* trace["path_used"] = "heuristic"; return _heuristic_structured(cleaned_text)
Heuristic ==
  /\ call.fn = "extract_resume_structure" /\ call.pc = "heuristic"
  /\ call' = [call EXCEPT !.made = Append(@, "heuristic"),
                          !.path_used = "heuristic",
                          !.result = heuristic_structured(preprocess_lines(call.text)),
                          !.pc = "returned"]
  /\ UNCHANGED <<orchestrator, jd_index, jd_meta, ingest>>

ExtractNext == Segment \/ Map \/ SinglePass \/ Heuristic

ExtractSpec == ExtractInit /\ [][ExtractNext]_vars

\* ---- what the claims speak about ----------------------------------------
\* positions inside `with lock:` of process_resume_background / _add_materials_worker
CriticalPcs == {"load_raw", "raw_open", "raw_write", "extract", "chunk", "embed",
                "save_index", "meta_open", "meta_write", "extraction", "clustering",
                "ready", "except", "release"}
InCritical(w) == worker[w].pc \in CriticalPcs

\* upload ids that a start_* call has handed back to its caller
Returned == {j \in 1..next_id : api.item.upload_id # j}

\* the pool thread that runs job j now, if any
Running(j) == {w \in Workers : worker[w].pc # "idle" /\ Job(w) = j}

\* C1: for every session at most one pipeline run is inside the critical
\* section that writes the session's files, also when the session's lock is
\* created by concurrent callers of _session_lock
C1_SingleFlight ==
  \A s \in Sessions : Cardinality({w \in Workers : InCritical(w) /\ Sess(w) = s}) <= 1

\* two runs of one session, both through _session_lock: one is writing the
\* session's files and the other waits at the lock
C1_Witness ==
  \E v, w \in Workers :
    /\ Sess(v) = Sess(w) /\ v # w
    /\ worker[v].pc = "save_index"
    /\ worker[w].pc = "acquire"
    /\ worker[v].lock = worker[w].lock

\* C2: a job starts at PARSING; its status only moves forward along PARSING,
\* CHUNKING, EMBEDDING, INDEXING, READY or to ERROR, and never changes once
\* it is READY or ERROR
C2_StatusTransition ==
  \A j \in DOMAIN UPLOAD_STATUS' :
    IF j \in DOMAIN UPLOAD_STATUS
    THEN LET a == UPLOAD_STATUS[j].status
             b == UPLOAD_STATUS'[j].status
         IN a # b => /\ ~Terminal(a)
                     /\ b \in {"chunking", "embedding", "indexing", "ready", "error"}
                     /\ b = "error" \/ StatusRank[b] > StatusRank[a]
    ELSE UPLOAD_STATUS'[j].status = "parsing"

C2_StatusMachine == [][C2_StatusTransition]_vars

\* one job went all the way to READY, another ended in ERROR
C2_Witness ==
  \E i, j \in DOMAIN UPLOAD_STATUS :
    /\ UPLOAD_STATUS[i].status = "ready"
    /\ UPLOAD_STATUS[j].status = "error"

\* C3: start_resume_processing creates the record with status PARSING before it
\* schedules the run and returns without waiting for it; no scheduled or
\* returned job id is unknown to get_upload_status
C3_RecordBeforeSchedule ==
  /\ api.pc = "submit" =>
       /\ api.item.upload_id \in DOMAIN UPLOAD_STATUS
       /\ UPLOAD_STATUS[api.item.upload_id].status = "parsing"
       /\ ENABLED ExecutorSubmit
  /\ \A i \in 1..Len(queue) : queue[i].upload_id \in DOMAIN UPLOAD_STATUS
  /\ \A w \in Workers : worker[w].pc # "idle" => Job(w) \in DOMAIN UPLOAD_STATUS
  /\ \A j \in Returned : get_upload_status(j).detail # <<"Unknown upload_id">>

\* an upload whose id was returned while its run still waits in the queue,
\* both pool threads being busy
C3_Witness ==
  /\ api.pc = "idle"
  /\ \E i \in 1..Len(queue) :
       /\ queue[i].fn = "process_resume_background"
       /\ queue[i].upload_id \in Returned
       /\ get_upload_status(queue[i].upload_id).status = "parsing"
  /\ \A w \in Workers : worker[w].pc # "idle"

\* some run of session s has completed save_resume_raw: the session has raw text
SavedRaw(s) ==
  \E j \in DOMAIN UPLOAD_STATUS :
    /\ UPLOAD_STATUS[j].session_id = s
    /\ hist[j].wrote
    /\ \A w \in Running(j) : worker[w].pc # "raw_write"

\* C4: start_add_materials raises (before any record, submission or artifact
\* change) for a session without prior raw text, and never raises this way
\* for a session that has prior raw text
C4_AddMaterialsFailsFast ==
  \A s \in Sessions, t \in AddTexts :
    ENABLED StartAddMaterials(s, t) => (NoExistingResume(s) <=> ~SavedRaw(s))

\* C5: for an id no submit call has returned, get_upload_status yields the
\* value (ERROR, "Unknown upload_id") and creates no record for it
C5_UnknownUploadId ==
  /\ DOMAIN UPLOAD_STATUS \subseteq 1..next_id
  /\ ApiReady =>
       \A id \in QueryIds \ Returned :
         get_upload_status(id) = [status |-> "error", detail |-> <<"Unknown upload_id">>]

\* a client can ask for an id that was never returned while other ids are known
C5_Witness ==
  /\ ApiReady
  /\ Returned # {}
  /\ \E id \in QueryIds \ Returned :
       /\ ENABLED GetUploadStatus(id)
       /\ get_upload_status(id).detail = <<"Unknown upload_id">>

\* C6: when a stage raises, the run catches it: status ERROR with the message
\* as detail, no further stage, nothing reaches the pool, and the run is not
\* executed again
C6_ExceptionCaught ==
  \A j \in DOMAIN UPLOAD_STATUS :
    /\ hist[j].taken <= 1
    /\ hist[j].raised # <<>> =>
         /\ ~hist[j].escaped
         /\ \A w \in Running(j) : worker[w].pc \in {"except", "release"}
         /\ (\A w \in Running(j) : worker[w].pc = "release") =>
              /\ UPLOAD_STATUS[j].status = "error"
              /\ UPLOAD_STATUS[j].detail = hist[j].raised

\* a run ended in ERROR by an exception and both pool threads run later jobs
C6_Witness ==
  \E j \in DOMAIN UPLOAD_STATUS :
    /\ hist[j].raised # <<>>
    /\ Running(j) = {}
    /\ UPLOAD_STATUS[j].status = "error"
    /\ \A w \in Workers : worker[w].pc \notin {"idle", "sl_enter"}

\* ---- the pool threads under a fair scheduler ----------------------------
\* every pool thread that can take a step eventually takes one
FairSpec == Spec /\ \A w \in Workers : WF_vars(WorkerStep(w))

\* C7: of two runs submitted for one session one after the other, the one
\* submitted second writes no session artifact before the one submitted first
\* has reached READY or ERROR
C7_SubmissionOrder ==
  \A i, j \in Returned :
    (/\ i < j
     /\ UPLOAD_STATUS[i].session_id = UPLOAD_STATUS[j].session_id
     /\ hist[j].wrote)
      => Terminal(UPLOAD_STATUS[i].status)

\* C8 as stated: no run holds a session lock once its status is READY or ERROR
C8_NoLockAtTerminal ==
  \A w \in Workers :
    (worker[w].pc # "idle" /\ Terminal(UPLOAD_STATUS[Job(w)].status))
      => \A l \in DOMAIN lock_owner : lock_owner[l] # w

\* a session lock is held only by a pool thread inside `with lock:` for that lock
C8_HeldInsideWith ==
  \A l \in DOMAIN lock_owner :
    lock_owner[l] # 0 =>
      /\ InCritical(lock_owner[l])
      /\ worker[lock_owner[l]].lock = l
      /\ SESSION_LOCKS[Sess(lock_owner[l])] = l

\* C8: the terminal status is written inside `with lock:` and the lock is
\* released when the worker function returns, after READY as after ERROR: a
\* lock is held only by a thread still inside its run, and a run waiting at
\* the lock eventually acquires it
C8_LockReleased ==
  /\ []C8_HeldInsideWith
  /\ \A w \in Workers : (worker[w].pc = "acquire") ~> (worker[w].pc = "raw_open" \/ worker[w].pc = "load_raw")

\* a run waits at the lock of a session whose previous run ended in ERROR and
\* has just released it
C8_Witness ==
  \E w \in Workers, j \in DOMAIN UPLOAD_STATUS :
    /\ worker[w].pc = "acquire"
    /\ UPLOAD_STATUS[j].session_id = Sess(w)
    /\ UPLOAD_STATUS[j].status = "error"
    /\ hist[j].raised # <<>>
    /\ Running(j) = {}
    /\ lock_owner[worker[w].lock] = 0

\* C9: at most two runs are held by pool threads; every other submitted run
\* waits in the queue exactly once until a thread takes it, and submit is
\* always possible, whatever the pool is doing
C9_PoolBound ==
  /\ Cardinality({w \in Workers : worker[w].pc # "idle"}) <= 2
  /\ \A j \in Returned :
       LET queued == {i \in 1..Len(queue) : queue[i].upload_id = j}
       IN IF hist[j].taken = 0
          THEN Cardinality(queued) = 1 /\ Running(j) = {}
          ELSE queued = {} /\ Cardinality(Running(j)) <= 1
  /\ api.pc = "submit" => ENABLED ExecutorSubmit

\* two runs are held by pool threads and a third waits in the queue
C9_Witness ==
  /\ Cardinality({w \in Workers : worker[w].pc # "idle"}) = 2
  /\ Len(queue) >= 1
  /\ queue[1].upload_id \in Returned

\* C10: when no run of a session is writing it, the session's metadata file
\* is the complete chunk list of one single run of that session
C10_FullOverwrite ==
  \A s \in Sessions :
    (\A w \in Workers : ~(worker[w].pc = "meta_write" /\ Sess(w) = s)) =>
      \/ ~resume_meta[s].exists
      \/ \E j \in DOMAIN UPLOAD_STATUS :
           /\ UPLOAD_STATUS[j].session_id = s
           /\ hist[j].nmeta >= 1
           /\ resume_meta[s].entries = MetaOf(j, hist[j].nmeta)

\* two runs of one session are over; the later, shorter list replaced the longer
C10_Witness ==
  \E i, j \in DOMAIN UPLOAD_STATUS :
    /\ i # j
    /\ UPLOAD_STATUS[i].session_id = UPLOAD_STATUS[j].session_id
    /\ Terminal(UPLOAD_STATUS[i].status) /\ Terminal(UPLOAD_STATUS[j].status)
    /\ Running(i) = {} /\ Running(j) = {}
    /\ hist[i].nmeta = 2
    /\ resume_meta[UPLOAD_STATUS[j].session_id].entries = MetaOf(j, 1)

\* ---- C11 ------------------------------------------------------------------
\* the last ingest_jds call has returned
IngestReturned == ingest.pc = "idle" /\ ingest.outcome = "returned"

\* the chunks the items before item k of the list give, counted
RECURSIVE ChunksBefore(_, _)
ChunksBefore(items, k) ==
  IF k <= 1 THEN 0
  ELSE ChunksBefore(items, k - 1)
       + Len(chunk_text(items[k - 1].text, ChunkSize, ChunkOverlap))

\* C11: ingestion into the global job-description index is additive: when an
\* ingest_jds call has returned, every metadata entry persisted before the
\* call is still at its position, the chunks of the call follow them in the
\* order of the items and of the chunks of each item, the returned count is
\* the number of entries appended, and a call whose items give no chunk has
\* left the persisted index and metadata as they were.
C11_Additive ==
  IngestReturned =>
    LET old == load_metadata(ingest.meta0)
        now == load_metadata(jd_meta)
        items == ingest.items
        total == ChunksBefore(items, Len(items) + 1)
    IN  /\ Len(now) = Len(old) + total
        /\ \A p \in 1..Len(old) : now[p] = old[p]
        /\ \A k \in 1..Len(items) :
             LET chunks == chunk_text(items[k].text, ChunkSize, ChunkOverlap) IN
               \A i \in 1..Len(chunks) :
                 LET e == now[Len(old) + ChunksBefore(items, k) + i] IN
                   /\ e.text = chunks[i]
                   /\ e.chunk_id = <<"jd", items[k].role, ingest.calls, k, i - 1>>
        /\ ingest.ret = total
        /\ total = 0 => jd_meta = ingest.meta0 /\ jd_index = ingest.index0

\* a second call has appended the chunks of two items to a store that held entries
C11_Witness ==
  /\ IngestReturned
  /\ Len(load_metadata(ingest.meta0)) > 0
  /\ Len(ingest.items) = 2
  /\ ingest.ret >= 3
  /\ Len(jd_meta.entries) = Len(ingest.meta0.entries) + ingest.ret

\* ---- C12 ------------------------------------------------------------------
\* a run is between save_faiss_index and the end of save_metadata in session s
MidPersist(s) ==
  \E w \in Workers : Sess(w) = s /\ worker[w].pc \in {"meta_open", "meta_write"}

\* the vectors of resume.index: vector i is the embedding of chunk i of the
\* run that built the index
ResumeVectors(s) ==
  [i \in 1..resume_index[s].ntotal |->
     [job |-> resume_index[s].job, chunk_index |-> i]]

\* C12: after every add/persist cycle the persisted index holds as many
\* vectors as the persisted metadata has entries, and vector i is the
\* embedding of the text of entry i: for the JD store whenever no ingest_jds
\* call is running, for a session whenever its index exists and no run is
\* between saving the index and saving the metadata.
C12_IndexMatchesMeta ==
  /\ ingest.pc = "idle" =>
       /\ Len(jd_index.vectors) = Len(load_metadata(jd_meta))
       /\ \A i \in 1..Len(jd_index.vectors) :
            jd_index.vectors[i] = Embedding(jd_meta.entries[i].text)
  /\ \A s \in Sessions :
       (resume_index[s].exists /\ ~MidPersist(s)) =>
          /\ resume_meta[s].exists
          /\ resume_meta[s].entries = ResumeVectors(s)

\* a second run of a session has rebuilt index and metadata with two chunks
C12_Witness ==
  \E s \in Sessions, w \in Workers :
    /\ Sess(w) = s
    /\ worker[w].pc = "extraction"
    /\ hist[Job(w)].nmeta = 2
    /\ resume_index[s].job = Job(w)
    /\ \E j \in UploadIds : j # Job(w) /\ hist[j].nmeta > 0
                            /\ UPLOAD_STATUS[j].session_id = s

\* ---- C13 ------------------------------------------------------------------
\* positions of an add-materials run after save_resume_raw(session_id, merged)
AfterSaveRaw == {"extract", "chunk", "embed", "save_index", "meta_open", "meta_write",
                 "extraction", "clustering", "ready", "except", "release"}

\* the jobs of session s, and those of them that are add-materials runs
JobsOf(s) == {j \in DOMAIN UPLOAD_STATUS : UPLOAD_STATUS[j].session_id = s}
AddJobsOf(s) == {j \in JobsOf(s) : hist[j].item.fn = "_add_materials_worker"}

\* job j was run and its worker function has returned
Finished(j) == hist[j].taken = 1 /\ Running(j) = {}

\* the raw text after merging the texts of the add jobs in the given order
RECURSIVE MergeAll(_, _)
MergeAll(raw, order) ==
  IF order = <<>> THEN raw
  ELSE MergeAll(Merged(raw, hist[Head(order)].item.text), Tail(order))

\* the orders in which the jobs of a set can have run
Orders(J) == {o \in [1..Cardinality(J) -> J] : \A a, b \in DOMAIN o : a # b => o[a] # o[b]}

\* session s had one upload, every other job of it is an add-materials run,
\* at least two of them, and all of them ended READY
AllAddsSucceeded(s) ==
  /\ \A j \in JobsOf(s) : Finished(j)
  /\ Cardinality(JobsOf(s) \ AddJobsOf(s)) = 1
  /\ Cardinality(AddJobsOf(s)) >= 2
  /\ \A j \in AddJobsOf(s) : UPLOAD_STATUS[j].status = "ready"

\* C13: an add-materials run reads the stored raw text while it holds the
\* session lock, saves strip(raw) + blank line + strip(new text) as the raw
\* text of the session and runs the pipeline on exactly that text, and the
\* file holds that text as long as the run holds the lock; when all
\* add-materials runs of a session succeeded, the raw text is the original
\* text followed by every added text once, in the order the runs had the lock.
C13_MergedRawText ==
  /\ \A w \in Workers :
       worker[w].item.fn = "_add_materials_worker" =>
         /\ worker[w].pc = "load_raw" =>
              /\ lock_owner[worker[w].lock] = w
              /\ SESSION_LOCKS[Sess(w)] = worker[w].lock
         /\ (worker[w].pc \in AfterSaveRaw /\ hist[Job(w)].wrote) =>
              LET merged == strip(hist[Job(w)].prev.text) \o <<"\n", "\n">>
                            \o strip(worker[w].item.text)
              IN  /\ Truthy(hist[Job(w)].prev)
                  /\ worker[w].text = merged
                  /\ resume_raw[Sess(w)] = [exists |-> TRUE, text |-> merged]
  /\ \A s \in Sessions :
       AllAddsSucceeded(s) =>
         LET up == CHOOSE j \in JobsOf(s) : j \notin AddJobsOf(s) IN
           \E o \in Orders(AddJobsOf(s)) :
             resume_raw[s].text = MergeAll(hist[up].item.text, o)

\* two add-materials runs of one session have both ended READY
C13_Witness ==
  \E s \in Sessions :
    /\ AllAddsSucceeded(s)
    /\ resume_raw[s].text = <<"a", "\n", "\n", "b", "\n", "\n", "b">>

\* ---- C14 ------------------------------------------------------------------
\* a float is a number of [0, 1]
InUnitInterval(q) ==
  /\ q.m >= 0
  /\ q.m > 0 => \/ q.e <= -MantissaBits
                \/ q.e = 1 - MantissaBits /\ q.m = Pow2(MantissaBits - 1)

\* the least exponent among the values of a distribution
MinExp(d) ==
  CHOOSE x \in {d[c].e : c \in DOMAIN d} : \A c \in DOMAIN d : x <= d[c].e

\* the exact sum of the values of a distribution, as a multiple of 2^MinExp(d)
ExactSum(d) ==
  LET x == MinExp(d)
      part(c) == d[c].m * Pow2(d[c].e - x)
  IN  part("MLE") + part("DS") + part("SWE") + part("QR") + part("QD")

\* how far the exact sum is from 1, as a multiple of 2^MinExp(d)
OffOne(d) ==
  LET diff == ExactSum(d) - Pow2(-MinExp(d)) IN IF diff < 0 THEN -diff ELSE diff

\* a call of run_clustering has returned
ClusteringReturned == call.fn = "run_clustering" /\ call.done

\* what C14 says apart from the sum: the five keys, every value in [0, 1],
\* all values 0 when there is no assignment or the total weight is zero
C14_KeysRangeZero ==
  LET d == call.distribution IN
    /\ DOMAIN d = {"MLE", "DS", "SWE", "QR", "QD"}
    /\ \A c \in DOMAIN d : InUnitInterval(d[c])
    /\ (call.assignments = <<>> \/ call.total_w.m = 0) =>
         \A c \in DOMAIN d : d[c] = FZero

\* C14 as stated: run_clustering returns a distribution with exactly the keys
\* MLE, DS, SWE, QR, QD, every value in [0, 1]; the values sum to 1 when the
\* accumulated total weight is greater than zero, and all are 0 when there is
\* no assignment or the total weight is zero (nothing is divided by zero).
C14_SumsToOne ==
  ClusteringReturned =>
    /\ C14_KeysRangeZero
    /\ call.total_w.m > 0 => OffOne(call.distribution) = 0

\* C14, amended: as above, but the values sum to 1 up to the rounding of the
\* divisions and additions: the sum is within 8 units of the last place of 1.
C14_Distribution ==
  ClusteringReturned =>
    /\ C14_KeysRangeZero
    /\ call.total_w.m > 0 =>
         OffOne(call.distribution) * Pow2(MantissaBits)
           <= 8 * Pow2(-MinExp(call.distribution))

\* three roles carry weight and the shares do not add up to 1 exactly
C14_Witness ==
  /\ ClusteringReturned
  /\ Len(call.assignments) = 2
  /\ Cardinality({c \in ValidCids : call.distribution[c].m > 0}) = 3
  /\ OffOne(call.distribution) > 0

\* assignments were given, none of them carried a usable role or tier: the
\* total weight is zero
C14_ZeroWitness ==
  /\ ClusteringReturned
  /\ Len(call.assignments) = 2
  /\ call.total_w = FZero

\* ---- C15 ------------------------------------------------------------------
\* position i of the text lies inside an occurrence of one of the chunks
Covered(text, chunks, i) ==
  \E n \in DOMAIN chunks : \E at \in 0..(Len(text) - Len(chunks[n])) :
    /\ at < i /\ i <= at + Len(chunks[n])
    /\ SubSeq(text, at + 1, at + Len(chunks[n])) = chunks[n]

ChunkTextReturned == call.fn = "chunk_text" /\ call.done

\* what C15 says apart from the coverage: no chunk is empty or whitespace-only,
\* and the empty text gives the empty list
C15_NoBlankChunk ==
  /\ \A n \in DOMAIN call.chunks : strip(call.chunks[n]) # <<>>
  /\ call.text = <<>> => call.chunks = <<>>

\* C15 as stated: for a non-empty text and 0 <= overlap < chunk_size every
\* position of the text lies inside some returned chunk, no returned chunk is
\* empty or whitespace-only, and the empty text gives the empty list.
C15_EveryCharacter ==
  ChunkTextReturned =>
    /\ C15_NoBlankChunk
    /\ \A i \in 1..Len(call.text) : Covered(call.text, call.chunks, i)

\* C15, amended: every position of the text that holds a character other
\* than whitespace lies inside some returned chunk (whitespace at the ends
\* of a window is trimmed away, a window of whitespace gives no chunk); every
\* returned chunk is trimmed and not empty; the empty text gives the empty list.
C15_Coverage ==
  ChunkTextReturned =>
    /\ C15_NoBlankChunk
    /\ \A n \in DOMAIN call.chunks : strip(call.chunks[n]) = call.chunks[n]
    /\ \A i \in 1..Len(call.text) :
         ~IsSpace(call.text[i]) => Covered(call.text, call.chunks, i)

\* a text of four characters was cut into windows that overlap, and the space
\* at the end of a window is in no chunk
C15_Witness ==
  /\ ChunkTextReturned
  /\ call.text = <<"a", " ", "b", "a">>
  /\ call.chunk_size = 2 /\ call.overlap = 1
  /\ call.chunks = <<<<"a">>, <<"b">>, <<"b", "a">>, <<"a">>>>

\* ---- C16 ------------------------------------------------------------------
ExtractReturned == call.fn = "extract_resume_structure" /\ call.pc = "returned"

\* a structured resume with at least one block in one of its three lists
Populated(structured) ==
  Len(structured.experiences) + Len(structured.projects) + Len(structured.education) > 0

\* the segmentation call and the single-pass call both returned no block
BothReturnedNoBlock ==
  /\ ExtractReturned
  /\ ~call.seg.raised /\ call.seg.blocks = 0
  /\ "single_pass" \in {call.made[i] : i \in DOMAIN call.made}
  /\ ~call.single.raised /\ ~Populated(call.single.structured)

\* C16 as stated: when segmentation and single-pass both return no blocks,
\* extract_resume_structure takes the heuristic path and, for a non-empty
\* text, returns a structured resume with at least one experience block.
C16_ExperienceBlock ==
  BothReturnedNoBlock =>
    /\ call.path_used = "heuristic"
    /\ ~EmptyText(call.text) => Len(call.result.experiences) >= 1

\* C16, amended: ... returns a structured resume with at least one block in
\* experiences, projects or education; the block is an experience block
\* whenever the scanner found no education and no project block.
C16_SomeBlock ==
  BothReturnedNoBlock =>
    /\ call.path_used = "heuristic"
    /\ Populated(call.result)
    /\ (call.result.education = <<>> /\ call.result.projects = <<>>) =>
         Len(call.result.experiences) >= 1

\* the heuristic path read an education section and found no experience
C16_Witness ==
  /\ BothReturnedNoBlock
  /\ call.text = <<"EDUCATION", "Stanford University", "- built x">>
  /\ call.result.experiences = <<>>
  /\ Len(call.result.education) = 1

\* ---- C20 ------------------------------------------------------------------
Made(step) == step \in {call.made[i] : i \in DOMAIN call.made}

\* C20: extract_resume_structure tries two-pass, single-pass, heuristic in
\* this order; the mapping call is made only when the segmentation gave at
\* least one block, the single-pass call only when two-pass gave no populated
\* result (or raised), the heuristic only when single-pass gave no populated
\* block (or raised); the function returns a structured result and never
\* raises, and path_used names the path whose result is returned.
C20_FallbackChain ==
  /\ call.fn = "extract_resume_structure" =>
       /\ ~call.raised
       /\ call.made \in {<<>>, <<"segment">>, <<"segment", "map">>,
                         <<"segment", "single_pass">>,
                         <<"segment", "map", "single_pass">>,
                         <<"segment", "single_pass", "heuristic">>,
                         <<"segment", "map", "single_pass", "heuristic">>}
       /\ Made("map") => ~call.seg.raised /\ call.seg.blocks >= 1
       /\ Made("single_pass") =>
            \/ ~Made("map")
            \/ call.map.raised
            \/ ~Populated(call.map.structured)
       /\ Made("heuristic") =>
            call.single.raised \/ ~Populated(call.single.structured)
       /\ call.pc # "returned" => call.path_used = "None"
  /\ ExtractReturned =>
       LET last == call.made[Len(call.made)] IN
         /\ DOMAIN call.result = {"experiences", "projects", "education"}
         /\ last = "map" =>
              call.path_used = "two_pass" /\ call.result = call.map.structured
         /\ last = "single_pass" =>
              call.path_used = "single_pass" /\ call.result = call.single.structured
         /\ last = "heuristic" =>
              /\ call.path_used = "heuristic"
              /\ call.result = heuristic_structured(preprocess_lines(call.text))
         /\ last # "segment"

\* the mapping call raised, the single-pass call gave no block, and the
\* heuristic produced the result
C20_Witness ==
  /\ ExtractReturned
  /\ call.made = <<"segment", "map", "single_pass", "heuristic">>
  /\ call.map.raised
  /\ ~call.single.raised
  /\ call.path_used = "heuristic"
  /\ Len(call.result.experiences) = 1

\* ---- C17 ------------------------------------------------------------------
\* text.split("\n"): the pieces between the line breaks
RECURSIVE SplitAtBreaks(_)
SplitAtBreaks(text) ==
  IF \A i \in DOMAIN text : text[i] # "\n" THEN <<text>>
  ELSE LET k == CHOOSE i \in DOMAIN text :
                  text[i] = "\n" /\ \A j \in 1..(i - 1) : text[j] # "\n"
       IN  <<SubSeq(text, 1, k - 1)>> \o SplitAtBreaks(SubSeq(text, k + 1, Len(text)))

\* the characters of a line that are neither whitespace nor the separator
RECURSIVE Letters(_)
Letters(line) ==
  IF line = <<>> THEN <<>>
  ELSE (IF IsSpace(Head(line)) \/ Head(line) = "|" THEN <<>> ELSE <<Head(line)>>)
       \o Letters(Tail(line))

\* the runs of whitespace of a line that hold a tab: a tab begins such a run
\* when no tab stands between it and the last character before that is no
\* whitespace
TabRuns(line) ==
  Cardinality({i \in DOMAIN line :
                 /\ line[i] = "\t"
                 /\ \A j \in 1..(i - 1) :
                      line[j] = "\t" => \E k \in (j + 1)..(i - 1) : ~IsSpace(line[k])})

Count(line, c) == Cardinality({i \in DOMAIN line : line[i] = c})

\* what C17 says of the result line by line: no tab, no two spaces in a row,
\* no whitespace at the ends, one separator for every run of tabs, the
\* other characters as they were
CleanLines(text, result) ==
  LET in == splitlines(text)
      out == SplitAtBreaks(result)
  IN  /\ \A i \in DOMAIN result : result[i] # "\t"
      /\ \A i \in 1..(Len(result) - 1) : ~(result[i] = " " /\ result[i + 1] = " ")
      /\ \A k \in DOMAIN out : strip(out[k]) = out[k]
      /\ \A k \in DOMAIN in :
           /\ k \in DOMAIN out
           /\ Count(out[k], "|") = TabRuns(in[k])
           /\ Letters(out[k]) = Letters(in[k])
           /\ \A i \in DOMAIN out[k] :
                out[k][i] = "|" => /\ i > 1 => out[k][i - 1] = " "
                                   /\ i < Len(out[k]) => out[k][i + 1] = " "

PreprocessedTwice == call.fn = "_preprocess_resume_text" /\ call.applied = 2

\* C17 as stated: the result has as many lines as the text, no tab, one
\* ' | ' for every run of tabs, no two spaces in a row, no whitespace at the
\* ends of a line, and a second application changes nothing.
C17_Idempotent ==
  PreprocessedTwice =>
    /\ Len(splitlines(call.result)) = Len(splitlines(call.text))
    /\ CleanLines(call.text, call.result)
    /\ call.again = call.result

\* C17, amended: the result is the processed lines of the text joined by
\* line breaks (as many as the text has lines, when it has any), each of them
\* clean as above; a second application changes nothing unless the result
\* ends with a line break, that is, unless the text has two or more lines and
\* the last one is blank, and then it removes exactly that line break.
C17_Preprocess ==
  PreprocessedTwice =>
    /\ call.text # <<>> => Len(SplitAtBreaks(call.result)) = Len(splitlines(call.text))
    /\ CleanLines(call.text, call.result)
    /\ IF call.result # <<>> /\ call.result[Len(call.result)] = "\n"
       THEN call.again = SubSeq(call.result, 1, Len(call.result) - 1)
       ELSE call.again = call.result

\* a line with a tab followed by a blank last line: the second application
\* removes the line break at the end
C17_Witness ==
  /\ PreprocessedTwice
  /\ call.text = <<"a", "\t", "\n", " ">>
  /\ call.result = <<"a", " ", "|", "\n">>
  /\ call.again = <<"a", " ", "|">>

\* ---- C18 ------------------------------------------------------------------
\* what a run announces in the status map when it starts a stage is
\* PipelineDetails, in the order of the calls in _run_full_pipeline; the last
\* one is written when clustering is done
\* the stages by name
StageNames ==
  <<"two_pass", "chunking", "embedding", "indexing", "skill_extraction", "clustering", "done">>
StageNo(name) == CHOOSE i \in DOMAIN StageNames : StageNames[i] = name

Announced(U, j) == U[j].detail[1]

\* the run j has the output of stage i in hand or on disk
StageDone(i, j) ==
  LET s == UPLOAD_STATUS[j].session_id IN
  \E w \in Running(j) :
    CASE i = StageNo("two_pass") -> resume_structured[s] = j
      [] i = StageNo("chunking") -> Len(worker[w].meta) >= 1
      [] i = StageNo("embedding") -> worker[w].nvec = Len(worker[w].meta)
      [] i = StageNo("indexing") -> /\ resume_index[s] = [exists |-> TRUE, job |-> j, ntotal |-> worker[w].nvec]
                         /\ resume_meta[s] = [exists |-> TRUE, entries |-> worker[w].meta]
      [] i = StageNo("skill_extraction") -> extraction_file[s] = j
      [] i = StageNo("clustering") -> clusters_file[s] = j

\* job j starts stage i in this step
Starts(i, j) ==
  /\ Announced(UPLOAD_STATUS', j) = PipelineDetails[i]
  /\ Announced(UPLOAD_STATUS, j) # PipelineDetails[i]

\* C18 as stated: the two-pass structured extraction of a run starts only
\* after that run's chunking and indexing are done.
C18_TwoPassAfterIndexing ==
  [][\A j \in DOMAIN UPLOAD_STATUS :
       Starts(StageNo("two_pass"), j) => StageDone(StageNo("chunking"), j) /\ StageDone(StageNo("indexing"), j)]_vars

\* C18, amended: a run executes its stages strictly in the order two-pass
\* structured extraction, chunking, embedding, vector indexing, skill
\* extraction, role-fit clustering: the first stage starts a run that has
\* announced no stage yet, every other stage starts only when the stage
\* before it was the last one announced and its output is there, and a run
\* announces nothing else but an error.
C18_StageOrder ==
  [][\A j \in DOMAIN UPLOAD_STATUS :
       Announced(UPLOAD_STATUS', j) # Announced(UPLOAD_STATUS, j) =>
         \/ UPLOAD_STATUS'[j].status = "error"
         \/ /\ Starts(StageNo("two_pass"), j)
            /\ \A i \in DOMAIN PipelineDetails : Announced(UPLOAD_STATUS, j) # PipelineDetails[i]
         \/ \E i \in 2..Len(PipelineDetails) :
              /\ Starts(i, j)
              /\ Announced(UPLOAD_STATUS, j) = PipelineDetails[i - 1]
              /\ StageDone(i - 1, j)]_vars

\* a run has gone through every stage and is READY, with the outputs of all
\* stages on disk
C18_Witness ==
  \E j \in DOMAIN UPLOAD_STATUS :
    LET s == UPLOAD_STATUS[j].session_id IN
    /\ UPLOAD_STATUS[j].status = "ready"
    /\ Announced(UPLOAD_STATUS, j) = PipelineDetails[Len(PipelineDetails)]
    /\ resume_structured[s] = j /\ resume_index[s].job = j
    /\ extraction_file[s] = j /\ clusters_file[s] = j

\* ---- C19 ------------------------------------------------------------------
\* C19: a status request that runs concurrently with update_upload_status
\* observes a status and a detail that one update (or the creation of the
\* record) wrote together, never the status of one update with the detail of
\* another.
C19_NoTornStatus ==
  (call.fn = "update_upload_status" /\ call.reader = "responded") =>
    <<call.status_info.status, call.status_info.detail>> \in call.written

\* ---- C21 ------------------------------------------------------------------
InLoopCall == call.fn = "chunk_text loop"
Progressing == InLoopCall /\ 0 <= call.overlap /\ call.overlap < call.chunk_size
Stuck == InLoopCall /\ call.overlap >= call.chunk_size /\ call.text # <<>>

\* C21: chunk_text returns for every text when 0 <= overlap < chunk_size (with
\* the chunks the function is defined to give); when overlap >= chunk_size and
\* the text is not empty, start never advances and the call never returns;
\* for the empty text it returns at once, with no chunk, for any configuration.
C21_Termination ==
  /\ Progressing ~> (call.pc = "returned")
  /\ [](Progressing /\ call.pc = "returned" =>
          call.chunks = chunk_text(call.text, call.chunk_size, call.overlap))
  /\ [](Stuck => call.pc # "returned" /\ call.start <= 0)
  /\ [][Stuck => call'.start <= call.start]_vars
  /\ [][InLoopCall /\ call.pc = "entry" /\ call.text = <<>> =>
          call'.pc = "returned" /\ call'.chunks = <<>>]_vars

\* a call with overlap = chunk_size on a text of one character has made all the
\* passes followed, start is where it began and every pass added a chunk
C21_Witness ==
  /\ Stuck /\ call.overlap = call.chunk_size /\ Len(call.text) = 1
  /\ call.passes = MaxPasses /\ call.start = 0 /\ call.pc = "while"
  /\ Len(call.chunks) = MaxPasses

\* ---- C22 ------------------------------------------------------------------
StructuredChunked == call.fn = "chunk_structured_resume" /\ call.done

\* C22: every chunk text of structured block chunking (header, newline and
\* body segment, or the header alone) has at most max_chars characters, for
\* every block and every header length.
C22_AtMostMaxChars ==
  StructuredChunked => \A i \in DOMAIN call.meta : Len(call.meta[i].text) <= BlockChunkSize

\* ---- C23 ------------------------------------------------------------------
DistinctChunkIds(meta) ==
  \A i, j \in DOMAIN meta : i # j => meta[i].chunk_id # meta[j].chunk_id

\* C23: no two entries of the metadata list of a session index have the same
\* chunk_id, whatever block ids the extraction returned, and no two entries
\* of the metadata of the job-description index have.
C23_UniqueChunkIds ==
  /\ StructuredChunked => DistinctChunkIds(call.meta)
  /\ DistinctChunkIds(jd_meta.entries)

\* ---- C24 ------------------------------------------------------------------
\* the reference rule in exact arithmetic, in units of 1/600: tier weights and
\* ownership multipliers in tenths, a share of 1/n as 600/n
RefTierWeight == [t \in {"1", "2", "3"} |-> CASE t = "1" -> 10 [] t = "2" -> 6 [] t = "3" -> 3]
RefOwnership(o) ==
  CASE o = "primary" -> 10 [] o = "parallel" -> 8 [] o = "earlier_career" -> 7
    [] o = "add_on" -> 6 [] o = "coursework" -> 4 [] OTHER -> 10
RefRoles == {"MLE", "DS", "SWE", "QR", "QD"}

RECURSIVE SumTo(_, _)
SumTo(f, n) == IF n = 0 THEN 0 ELSE SumTo(f, n - 1) + f[n]
SumAll(f) == SumTo(f, Len(f))

Tiered(assignments) == \E k \in DOMAIN assignments : assignments[k].role_tiers # <<>>

\* what one assignment adds to role c
RefTieredPart(a, c) ==
  SumAll([i \in DOMAIN a.role_tiers |->
            IF a.role_tiers[i].role = c /\ c \in RefRoles
               /\ a.role_tiers[i].tier \in DOMAIN RefTierWeight
            THEN 6 * RefTierWeight[a.role_tiers[i].tier] * RefOwnership(a.ownership)
            ELSE 0])
RefSplitPart(a, c) ==
  LET valid == {i \in DOMAIN a.clusters : a.clusters[i] \in RefRoles} IN
    IF valid = {} THEN 0
    ELSE Cardinality({i \in valid : a.clusters[i] = c}) * (600 \div Cardinality(valid))

RefWeight(assignments, c) ==
  SumAll([k \in DOMAIN assignments |->
            IF Tiered(assignments) THEN RefTieredPart(assignments[k], c)
            ELSE RefSplitPart(assignments[k], c)])

\* the float v is ref/600 up to the rounding of a dozen operations
CloseTo(v, ref) ==
  IF ref = 0 THEN v = FZero
  ELSE LET scaled == ref * Pow2(-v.e)
           diff == v.m * 600 - scaled
       IN  /\ v.m > 0 /\ v.e < 0
           /\ (IF diff < 0 THEN -diff ELSE diff) * Pow2(MantissaBits - 4) <= scaled

\* C24: the weights run_clustering accumulates equal the reference rule:
\* tiered mode whenever an assignment carries a non-empty role_tiers list,
\* tier_weight * ownership_multiplier per (role, tier) pair with weights
\* 1.0 / 0.6 / 0.3, multiplier 1.0 for an absent or unrecognized ownership,
\* pairs with an unknown role or tier ignored; equal-split mode only without
\* any tier data, 1/n to each of the n valid clusters of an assignment.
C24_ReferenceWeights ==
  ClusteringReturned =>
    /\ call.use_gt = Tiered(call.assignments)
    /\ DOMAIN call.weighted = RefRoles
    /\ \A c \in RefRoles : CloseTo(call.weighted[c], RefWeight(call.assignments, c))

\* MLE tier 1 primary and SWE tier 2 parallel: MLE = 1.0, SWE = 0.48
C24_Witness ==
  /\ ClusteringReturned
  /\ call.assignments =
       <<[role_tiers |-> <<[role |-> "MLE", tier |-> "1"]>>, ownership |-> "primary",
          clusters |-> <<>>],
         [role_tiers |-> <<[role |-> "SWE", tier |-> "2"]>>, ownership |-> "parallel",
          clusters |-> <<>>]>>
  /\ call.weighted["MLE"] = FromInt(1)
  /\ RefWeight(call.assignments, "SWE") = 288
  /\ CloseTo(call.weighted["SWE"], 288)

\* equal split: an assignment with one valid and one unknown cluster gives the
\* valid one the whole share, one with two valid clusters gives each a half
C24_SplitWitness ==
  /\ ClusteringReturned /\ ~call.use_gt
  /\ call.assignments =
       <<[role_tiers |-> <<>>, ownership |-> "unknown", clusters |-> <<"MLE", "PM">>],
         [role_tiers |-> <<>>, ownership |-> "unknown", clusters |-> <<"MLE", "QD">>]>>
  /\ call.weighted["MLE"] = Dec(3, 2) /\ call.weighted["QD"] = Dec(1, 2)

\* ---- C25 ------------------------------------------------------------------
\* executor.submit has been called for job j: its run waits in the queue or
\* was taken by a pool thread
Submitted(j) ==
  \/ \E i \in 1..Len(queue) : queue[i].upload_id = j
  \/ hist[j].taken > 0

Settled(j) == j \in DOMAIN UPLOAD_STATUS /\ Terminal(UPLOAD_STATUS[j].status)

Executing == {w \in Workers : InCritical(w)}

\* a pool thread stands at `with lock:` while another thread holds that lock
Blocked(v) ==
  /\ worker[v].pc = "acquire"
  /\ lock_owner[worker[v].lock] \notin {0, v}

\* C26: a run that waits for its session's lock occupies no worker slot:
\* whenever a run for a session B is queued, fewer than two runs execute
\* stages and the runs that wait at a lock are runs of another session, a
\* pool thread is free to start the run for B.
C26_WaitingHoldsNoSlot ==
  \A i \in 1..Len(queue) :
    (/\ Cardinality(Executing) < 2
     /\ \E v \in Workers : Blocked(v) /\ Sess(v) # queue[i].session_id)
      => \E w \in Workers : worker[w].pc = "idle"

\* ---- C27 ------------------------------------------------------------------
\* the run of pool thread w has ended in ERROR and is about to leave
\* `with lock:`; no other run of the session has run since it started
EndedInError(w) ==
  /\ worker[w].pc = "release"
  /\ UPLOAD_STATUS[Job(w)].status = "error"

\* C27: a run that ends in ERROR leaves the artifacts of its session as they
\* were when it started: it has written none of them, and a failed
\* add-materials run leaves the raw text without the new text.
C27_ErrorLeavesArtifacts ==
  \A w \in Workers :
    EndedInError(w) =>
      /\ ~hist[Job(w)].wrote
      /\ worker[w].item.fn = "_add_materials_worker" =>
           resume_raw[Sess(w)] = hist[Job(w)].prev

\* ---- C28 ------------------------------------------------------------------
\* a readiness test that also wants the cluster results
ReadyWhenClustered(s) == resume_index[s].exists /\ clusters_file[s] # 0

\* session_is_ready: index_path.exists()
session_is_ready(s) == resume_index[s].exists

\* some run of session s has set the status READY
ReachedReady(s) ==
  \E j \in DOMAIN UPLOAD_STATUS :
    UPLOAD_STATUS[j].session_id = s /\ UPLOAD_STATUS[j].status = "ready"

\* C28 as stated: session_is_ready is true only if a run of the session has
\* reached READY, and then the cluster results exist.
C28_ReadyMeansReady ==
  \A s \in Sessions :
    session_is_ready(s) => ReachedReady(s) /\ clusters_file[s] # 0

\* C28: session_is_ready turns true when a run of the session saves its
\* index and at no other step; once true it stays true; after a run of the
\* session has reached READY it is true and the cluster results exist.
C28_ReadyIsIndexSaved ==
  [][\A s \in Sessions :
       /\ session_is_ready(s) => session_is_ready(s)'
       /\ (~session_is_ready(s) /\ session_is_ready(s)') =>
            \E w \in Workers : /\ Sess(w) = s
                               /\ worker[w].pc = "save_index"
                               /\ worker'[w].pc = "meta_open"
       /\ ReachedReady(s)' => session_is_ready(s)' /\ clusters_file'[s] # 0]_vars

\* the only run of a session has ended in ERROR after saving its index: the
\* session is ready without cluster results
C28_Witness ==
  \E s \in Sessions :
    /\ session_is_ready(s) /\ ~ReachedReady(s) /\ clusters_file[s] = 0
    /\ \E j \in DOMAIN UPLOAD_STATUS :
         /\ UPLOAD_STATUS[j].session_id = s /\ UPLOAD_STATUS[j].status = "error"
         /\ Running(j) = {}

\* a session stays ready while a later run of it fails
C28_LaterRunWitness ==
  \E s \in Sessions : \E w \in Workers :
    /\ ReachedReady(s) /\ session_is_ready(s)
    /\ Sess(w) = s /\ EndedInError(w)

\* ---- search_resume_index ---------------------------------------------------
\* The request handlers are coroutines that call rag directly, so a search
\* runs on the API thread between two other calls of it, while the pool
\* threads go on. The search in progress is kept in `call`.
TopK == 1          \* get_top_k(): TOP_K of the environment, scaled down
SearchJobs == 2    \* submissions accepted in a behaviour with searches

\* load_faiss_index(index_path): the index in the file, None (exists FALSE)
\* when there is no file
load_faiss_index(s) == resume_index[s]

\* json.dump of a run of session s has opened resume_meta.json and has not
\* closed it yet: the file does not hold a complete JSON document
MetaIncomplete(s) ==
  \E w \in Workers : Sess(w) = s /\ worker[w].pc = "meta_write"

\* the entry paired with every matched position that the list in hand has
SearchResults(index, meta, hits) ==
  {[idx |-> i, vector |-> [job |-> index.job, chunk_index |-> i], entry |-> meta[i]] :
     i \in {h \in hits : h <= Len(meta)}}

\* search_resume_index: index = load_faiss_index(index_path)
Search_LoadIndex(s) ==
  /\ ApiReady
  /\ call = NoCall
  /\ call' = [fn |-> "search_resume_index", session_id |-> s, pc |-> "load_metadata",
              index |-> load_faiss_index(s), results |-> {}]
  /\ UNCHANGED <<orchestrator, jd_index, jd_meta, ingest>>

\* meta = load_metadata(meta_path), which raises on an incomplete file;
\* `if index is None or not meta: return []`; the query is embedded, the
\* index gives the k = min(top_k, index.ntotal) best positions (which ones
\* depends on the query), and each is paired with meta[idx]
Search_LoadMetadata ==
  /\ call.fn = "search_resume_index"
  /\ call.pc = "load_metadata"
  /\ LET s == call.session_id
         meta == load_metadata(resume_meta[s])
         k == Min(TopK, call.index.ntotal)
     IN IF MetaIncomplete(s)
        THEN call' = [call EXCEPT !.pc = "raised"]
        ELSE IF ~call.index.exists \/ meta = <<>>
        THEN call' = [call EXCEPT !.pc = "returned"]
        ELSE \E hits \in {h \in SUBSET (1..call.index.ntotal) : Cardinality(h) = k} :
               call' = [call EXCEPT !.pc = "returned",
                                    !.results = SearchResults(call.index, meta, hits)]
  /\ UNCHANGED <<orchestrator, jd_index, jd_meta, ingest>>

\* the handler has answered; the API thread is free for the next call
Search_Done ==
  /\ call.fn = "search_resume_index"
  /\ call.pc \in {"returned", "raised"}
  /\ call' = NoCall
  /\ UNCHANGED <<orchestrator, jd_index, jd_meta, ingest>>

\* the other calls handled by the API thread wait for the search to end
SearchApiStep == call = NoCall /\ ApiStep /\ next_id' <= SearchJobs

SearchNext ==
  \/ SearchApiStep
  \/ \E w \in Workers : WorkerStep(w)
  \/ \E s \in Sessions : Search_LoadIndex(s)
  \/ Search_LoadMetadata
  \/ Search_Done

SearchSpec == Init /\ [][SearchNext]_vars

\* ---- C29 ------------------------------------------------------------------
\* C29: every chunk search_resume_index returns is the metadata entry whose
\* text was embedded at the matched position of the index it searched, also
\* while a run of the session is rebuilding index and metadata.
C29_SearchPairsOneRun ==
  (call.fn = "search_resume_index" /\ call.pc = "returned") =>
     \A r \in call.results : r.entry = r.vector

\* ---- _run_full_pipeline up to the embedding call -----------------------------
\* extract_resume_structure, chunk_structured_resume, the sliding-window
\* fallback and embed_texts on one text, given by its lines as above.

\* the characters of a sample line, of what the heuristic makes of it, and of
\* the header the model answers
TextOf(ln) ==
  CASE ln = "" ->
         <<>>
    [] ln = "EXPERIENCE" ->
         <<"E", "X", "P", "E", "R", "I", "E", "N", "C", "E">>
    [] ln = "EDUCATION" ->
         <<"E", "D", "U", "C", "A", "T", "I", "O", "N">>
    [] ln = "PROJECTS" ->
         <<"P", "R", "O", "J", "E", "C", "T", "S">>
    [] ln = "SKILLS" ->
         <<"S", "K", "I", "L", "L", "S">>
    [] ln = "Stanford University" ->
         <<"S", "t", "a", "n", "f", "o", "r", "d", " ", "U", "n", "i", "v", "e", "r", "s", "i", "t", "y">>
    [] ln = "Engineer\tAcme 2019 - 2021" ->
         <<"E", "n", "g", "i", "n", "e", "e", "r", "\t", "A", "c", "m", "e", " ", "2", "0", "1", "9", " ", "-", " ", "2", "0", "2", "1">>
    [] ln = "Engineer | Acme 2019 - 2021" ->
         <<"E", "n", "g", "i", "n", "e", "e", "r", " ", "|", " ", "A", "c", "m", "e", " ", "2", "0", "1", "9", " ", "-", " ", "2", "0", "2", "1">>
    [] ln = "- built x" ->
         <<"-", " ", "b", "u", "i", "l", "t", " ", "x">>
    [] ln = "built x" ->
         <<"b", "u", "i", "l", "t", " ", "x">>
    [] ln = "plain line" ->
         <<"p", "l", "a", "i", "n", " ", "l", "i", "n", "e">>
    [] ln = "ROLE FIT" ->
         <<"R", "O", "L", "E", " ", "F", "I", "T">>
    [] ln = "SUMMARY" ->
         <<"S", "U", "M", "M", "A", "R", "Y">>
    [] ln = "from the model" ->
         <<"f", "r", "o", "m", " ", "t", "h", "e", " ", "m", "o", "d", "e", "l">>

\* a block of the extraction as _chunk_block_with_header reads it: what the
\* extraction took for the head of the block is its first header field, the
\* block_id is minted when the block is chunked
BlockOf(b, kind) ==
  LET head == TextOf(b.header)
      bullets == [i \in DOMAIN b.bullets |-> TextOf(b.bullets[i])]
  IN  CASE kind = "experience" -> [block_id |-> <<>>, company |-> head, bullets |-> bullets]
        [] kind = "project" -> [block_id |-> <<>>, name |-> head, bullets |-> bullets]
        [] kind = "education" -> [block_id |-> <<>>, school |-> head, bullets |-> bullets]

BlocksOf(structured) ==
  [experiences |-> [i \in DOMAIN structured.experiences |->
                      BlockOf(structured.experiences[i], "experience")],
   projects |-> [i \in DOMAIN structured.projects |->
                   BlockOf(structured.projects[i], "project")],
   education |-> [i \in DOMAIN structured.education |->
                    BlockOf(structured.education[i], "education")]]

\* the text of the upload: its lines joined by line breaks
RawText(lines) == join([i \in DOMAIN lines |-> TextOf(lines[i])])

\* status CHUNKING; chunks, meta = chunk_structured_resume(structured);
\* `if not chunks:` chunks = chunk_text(text)
Pipeline_Chunk ==
  /\ call.fn = "extract_resume_structure" /\ call.pc = "returned"
  /\ LET structured == BlocksOf(call.result)
         meta == chunk_structured_resume(structured)
         chunks == [i \in DOMAIN meta |-> meta[i].text]
     IN  call' = [fn |-> "_run_full_pipeline", text |-> call.text, pc |-> "embedding",
                  path_used |-> call.path_used, structured |-> structured, meta |-> meta,
                  fallback |-> (chunks = <<>>),
                  chunks |-> IF chunks = <<>>
                             THEN chunk_text(RawText(call.text), ChunkSize, ChunkOverlap)
                             ELSE chunks,
                  embeddings |-> <<>>]
  /\ UNCHANGED <<orchestrator, jd_index, jd_meta, ingest>>

\* status EMBEDDING; embeddings = gemini_client.embed_texts(chunks)
Pipeline_Embed ==
  /\ call.fn = "_run_full_pipeline" /\ call.pc = "embedding"
  /\ call' = [call EXCEPT !.pc = "indexing", !.embeddings = embed_texts(call.chunks)]
  /\ UNCHANGED <<orchestrator, jd_index, jd_meta, ingest>>

PipelineHeadNext == ExtractNext \/ Pipeline_Chunk \/ Pipeline_Embed

PipelineHeadSpec == ExtractInit /\ [][PipelineHeadNext]_vars

\* ---- C30 ------------------------------------------------------------------
\* the run has reached the EMBEDDING stage
AtEmbedding == call.fn = "_run_full_pipeline" /\ call.pc \in {"embedding", "indexing"}

\* the blocks of a structured resume, and the first chunks of blocks in a list
NumBlocks(structured) ==
  Len(structured.experiences) + Len(structured.projects) + Len(structured.education)
FirstChunks(meta) == {i \in DOMAIN meta : meta[i].sub_index = 0}

\* C30: a run that reaches the EMBEDDING stage has at least one chunk, for
\* every text, the empty one included: the extraction has returned at least
\* one block, every block has given at least one chunk, the sliding-window
\* fallback was not taken, and the list of embeddings the index is built from
\* is not empty.
C30_AtLeastOneChunk ==
  AtEmbedding =>
    /\ NumBlocks(call.structured) >= 1
    /\ Cardinality(FirstChunks(call.meta)) = NumBlocks(call.structured)
    /\ ~call.fallback
    /\ Len(call.chunks) >= 1
    /\ call.pc = "indexing" => Len(call.embeddings) >= 1

\* the empty text has gone through the heuristic and is embedded as one chunk
C30_Witness ==
  /\ AtEmbedding /\ call.pc = "indexing"
  /\ EmptyText(call.text)
  /\ call.path_used = "heuristic"
  /\ Len(call.embeddings) = 1

====
